---- MODULE Spec2Model ----
(***************************************************************************)
(* PDE (Personal Development Environment): the project discovery and       *)
(* classification pipeline of src/core/types.ts.                           *)
(*                                                                         *)
(*   ProjectScanner  - walks <root>/<category>/<domain>/<subdomain> and    *)
(*                     yields the list of discovered project locations     *)
(*   ProjectDetector - scores a directory against DETECTION_PATTERNS and   *)
(*                     derives category/domain/subdomain from its path     *)
(*                                                                         *)
(* JavaScript strings are sequences of one-character strings, so that      *)
(* toLowerCase, includes, startsWith and split are computed, not assumed.  *)
(***************************************************************************)
EXTENDS Integers, Sequences, FiniteSets, TLC

----------------------------------------------------------------------------
(* JavaScript string primitives used by the scanner and the detector *)

\* The value of an optional field or variable that was never assigned.
undefined == <<"undefined">>

UpperToLower ==
  "A" :> "a" @@ "B" :> "b" @@ "C" :> "c" @@ "D" :> "d" @@ "E" :> "e" @@ "F" :> "f" @@
  "G" :> "g" @@ "H" :> "h" @@ "I" :> "i" @@ "J" :> "j" @@ "K" :> "k" @@ "L" :> "l" @@
  "M" :> "m" @@ "N" :> "n" @@ "O" :> "o" @@ "P" :> "p" @@ "Q" :> "q" @@ "R" :> "r" @@
  "S" :> "s" @@ "T" :> "t" @@ "U" :> "u" @@ "V" :> "v" @@ "W" :> "w" @@ "X" :> "x" @@
  "Y" :> "y" @@ "Z" :> "z"

\* String.prototype.toLowerCase
toLowerCase(s) ==
  [i \in 1..Len(s) |-> IF s[i] \in DOMAIN UpperToLower THEN UpperToLower[s[i]] ELSE s[i]]

\* String.prototype.startsWith
startsWith(s, prefix) ==
  /\ Len(prefix) <= Len(s)
  /\ SubSeq(s, 1, Len(prefix)) = prefix

\* String.prototype.endsWith
endsWith(s, suffix) ==
  /\ Len(suffix) <= Len(s)
  /\ SubSeq(s, Len(s) - Len(suffix) + 1, Len(s)) = suffix

\* String.prototype.includes
includes(s, sub) ==
  \E i \in 0..(Len(s) - Len(sub)) : SubSeq(s, i + 1, i + Len(sub)) = sub

\* String.prototype.split with a one-character separator: "a.b" -> ["a","b"],
\* "a." -> ["a",""], "" -> [""].
RECURSIVE splitFrom(_, _, _, _)
splitFrom(s, sep, i, cur) ==
  IF i > Len(s) THEN <<cur>>
  ELSE IF s[i] = sep THEN <<cur>> \o splitFrom(s, sep, i + 1, <<>>)
  ELSE splitFrom(s, sep, i + 1, Append(cur, s[i]))

split(s, sep) == splitFrom(s, sep, 1, <<>>)

\* Template literal `${a}/${b}`
joinPath(a, b) == a \o <<"/">> \o b

\* Array.prototype.includes on a sequence
arrayIncludes(arr, x) == \E i \in 1..Len(arr) : arr[i] = x

----------------------------------------------------------------------------
(* Name classifier: ProjectScanner.isDomainLike / isSubdomainLike /        *)
(* looksLikeProjectFolder and their pattern tables                         *)

\* isDomainLike: const tlds (src/core/types.ts:1753-1766)
tlds ==
  { <<"c","o","m">>, <<"o","r","g">>, <<"n","e","t">>, <<"e","d","u">>, <<"g","o","v">>,
    <<"m","i","l">>, <<"i","n","t">>, <<"u","k">>, <<"u","s">>, <<"c","a">>, <<"a","u">>,
    <<"d","e">>, <<"f","r">>, <<"j","p">>, <<"c","n">>, <<"i","n">>, <<"b","r">>, <<"m","x">>,
    <<"r","u">>, <<"a","p","p">>, <<"d","e","v">>, <<"i","o">>, <<"a","i">>, <<"t","e","c","h">>,
    <<"d","i","g","i","t","a","l">>, <<"o","n","l","i","n","e">>, <<"w","e","b","s","i","t","e">>,
    <<"s","i","t","e">>, <<"b","l","o","g">>, <<"n","e","w","s">>, <<"i","n","f","o">>,
    <<"b","i","z">>, <<"n","a","m","e">>, <<"p","r","o">>, <<"c","o","o","p">>,
    <<"m","u","s","e","u","m">>, <<"a","m">>, <<"t","v">>, <<"m","e">>, <<"c","o">>, <<"l","y">>,
    <<"b","e">>, <<"c","c">>, <<"w","s">>, <<"t","k">>, <<"m","l">>, <<"g","a">>, <<"c","f">>,
    <<"c","e","n","t","e","r">>, <<"c","l","u","b">>, <<"s","p","a","c","e">>,
    <<"s","t","o","r","e">>, <<"g","a","l","l","e","r","y">>, <<"s","t","u","d","i","o">>,
    <<"d","e","s","i","g","n">>, <<"a","g","e","n","c","y">>, <<"c","o","m","p","a","n","y">>,
    <<"s","o","l","u","t","i","o","n","s">>, <<"s","e","r","v","i","c","e","s">>,
    <<"c","o","n","s","u","l","t","i","n","g">>, <<"g","r","o","u","p">> }

\* isSubdomainLike: const subdomainPatterns (src/core/types.ts:1692-1708)
subdomainPatterns ==
  { <<"a","p","i">>, <<"w","w","w">>, <<"a","p","p">>, <<"a","d","m","i","n">>,
    <<"d","a","s","h","b","o","a","r","d">>, <<"p","o","r","t","a","l">>,
    <<"c","l","i","e","n","t">>, <<"b","l","o","g">>, <<"n","e","w","s">>, <<"d","o","c","s">>,
    <<"h","e","l","p">>, <<"s","u","p","p","o","r","t">>, <<"f","o","r","u","m">>,
    <<"s","h","o","p">>, <<"s","t","o","r","e">>, <<"c","a","r","t">>,
    <<"c","h","e","c","k","o","u","t">>, <<"p","a","y","m","e","n","t">>, <<"c","d","n">>,
    <<"s","t","a","t","i","c">>, <<"a","s","s","e","t","s">>, <<"m","e","d","i","a">>,
    <<"f","i","l","e","s">>, <<"d","e","v">>, <<"s","t","a","g","i","n","g">>, <<"t","e","s","t">>,
    <<"b","e","t","a">>, <<"a","l","p","h","a">>, <<"d","e","m","o">>, <<"m","a","i","l">>,
    <<"e","m","a","i","l">>, <<"w","e","b","m","a","i","l">>, <<"f","t","p">>, <<"s","s","h">>,
    <<"m","o","b","i","l","e">>, <<"m">>, <<"w","a","p">>, <<"u","s">>, <<"u","k">>, <<"e","u">>,
    <<"a","s","i","a">>, <<"a","u">>, <<"e","n">>, <<"f","r">>, <<"d","e">>, <<"e","s">>,
    <<"i","t">>, <<"p","t">>, <<"r","u">>, <<"z","h">>, <<"j","a">>, <<"g","a","m","i","n","g">>,
    <<"v","a","n","l","i","f","e">>, <<"d","e","m","o","c","r","a","c","y">>,
    <<"m","e","r","c","h">>, <<"l","e","a","r","n","i","n","g">>,
    <<"c","o","m","m","u","n","i","t","y">> }

\* isSubdomainLike: const projectFolderPatterns (src/core/types.ts:1711-1725)
projectFolderPatterns ==
  { <<"s","r","c">>, <<"s","o","u","r","c","e">>, <<"l","i","b">>, <<"l","i","b","s">>,
    <<"c","o","m","p","o","n","e","n","t","s">>, <<"c","o","m","p">>, <<"u","i">>,
    <<"b","u","i","l","d">>, <<"d","i","s","t">>, <<"o","u","t","p","u","t">>,
    <<"t","a","r","g","e","t">>, <<"b","i","n">>, <<"p","u","b","l","i","c">>,
    <<"s","t","a","t","i","c">>, <<"a","s","s","e","t","s">>, <<"i","m","a","g","e","s">>,
    <<"i","m","g">>, <<"c","s","s">>, <<"j","s">>, <<"f","o","n","t","s">>,
    <<"n","o","d","e","_","m","o","d","u","l","e","s">>, <<".","g","i","t">>,
    <<".","v","s","c","o","d","e">>, <<".","i","d","e","a">>, <<"t","e","s","t">>,
    <<"t","e","s","t","s">>, <<"_","_","t","e","s","t","s","_","_">>, <<"s","p","e","c">>,
    <<"s","p","e","c","s">>, <<"d","o","c","s">>,
    <<"d","o","c","u","m","e","n","t","a","t","i","o","n">>, <<"r","e","a","d","m","e">>,
    <<"c","o","n","f","i","g">>, <<"c","o","n","f","i","g","s">>,
    <<"s","e","t","t","i","n","g","s">>, <<"u","t","i","l","s">>,
    <<"u","t","i","l","i","t","i","e","s">>, <<"h","e","l","p","e","r","s">>,
    <<"c","o","m","m","o","n">>, <<"t","y","p","e","s">>,
    <<"i","n","t","e","r","f","a","c","e","s">>, <<"m","o","d","e","l","s">>,
    <<"s","c","h","e","m","a","s">>, <<"p","a","g","e","s">>, <<"v","i","e","w","s">>,
    <<"t","e","m","p","l","a","t","e","s">>, <<"l","a","y","o","u","t","s">>,
    <<"s","t","y","l","e","s">>, <<"s","c","s","s">>, <<"s","a","s","s">>, <<"l","e","s","s">>,
    <<"s","c","r","i","p","t","s">>, <<"t","o","o","l","s">>, <<"d","e","p","l","o","y">>,
    <<"d","e","p","l","o","y","m","e","n","t">>, <<"a","r","t","i","c","l","e">>,
    <<"a","r","t","i","c","l","e","s">> }

\* looksLikeProjectFolder: const projectPatterns (src/core/types.ts:1786-1804)
projectPatterns ==
  << <<"p","o","r","t","f","o","l","i","o">>, <<"w","e","b","s","i","t","e">>, <<"a","p","p">>,
    <<"a","p","i">>, <<"f","r","o","n","t","e","n","d">>, <<"b","a","c","k","e","n","d">>,
    <<"c","l","i","e","n","t">>, <<"s","e","r","v","e","r">>,
    <<"d","a","s","h","b","o","a","r","d">>, <<"a","d","m","i","n">>, <<"c","m","s">>,
    <<"b","l","o","g">>, <<"s","h","o","p">>, <<"s","t","o","r","e">>,
    <<"e","c","o","m","m","e","r","c","e">>, <<"r","e","a","c","t">>, <<"v","u","e">>,
    <<"a","n","g","u","l","a","r">>, <<"s","v","e","l","t","e">>, <<"n","e","x","t">>,
    <<"n","u","x","t">>, <<"g","a","t","s","b","y">>, <<"a","s","t","r","o">>, <<"n","o","d","e">>,
    <<"d","e","n","o">>, <<"e","x","p","r","e","s","s">>, <<"f","a","s","t","i","f","y">>,
    <<"n","e","s","t">>, <<"l","a","n","d","i","n","g">>, <<"d","o","c","s">>,
    <<"d","o","c","u","m","e","n","t","a","t","i","o","n">>, <<"g","u","i","d","e">>,
    <<"t","u","t","o","r","i","a","l">>, <<"d","e","m","o">>, <<"e","x","a","m","p","l","e">>,
    <<"p","r","o","t","o","t","y","p","e">>, <<"p","o","c">>, <<"m","v","p">>, <<"b","e","t","a">>,
    <<"a","l","p","h","a">>, <<"t","e","s","t">>, <<"d","e","v">>, <<"s","t","a","g","i","n","g">>,
    <<"m","y","-">>, <<"p","e","r","s","o","n","a","l","-">>, <<"o","w","n","-">>,
    <<"s","e","l","f","-">>, <<"c","l","i","e","n","t","-">>, <<"w","o","r","k","-">>,
    <<"p","r","o","j","e","c","t","-">>, <<"f","r","e","e","l","a","n","c","e","-">> >>

\* The indicators without the lower-case readme.md.
indicatorsAsWritten ==
  { <<"p","a","c","k","a","g","e",".","j","s","o","n">>, <<"d","e","n","o",".","j","s","o","n">>, <<"i","n","d","e","x",".","h","t","m","l">>, <<"s","r","c">>, <<"p","u","b","l","i","c">>, <<".","g","i","t">>, <<"R","E","A","D","M","E",".","m","d">> }

\* isProjectDirectory: const indicators (src/core/types.ts:1652-1661)
indicators ==
  { <<"p","a","c","k","a","g","e",".","j","s","o","n">>, <<"d","e","n","o",".","j","s","o","n">>,
    <<"i","n","d","e","x",".","h","t","m","l">>, <<"s","r","c">>, <<"p","u","b","l","i","c">>,
    <<".","g","i","t">>, <<"R","E","A","D","M","E",".","m","d">>,
    <<"r","e","a","d","m","e",".","m","d">> }

\* isDomainLike comparing the last part as it is written.
isDomainLikeCaseSensitive(name) ==
  IF includes(name, <<".">>)
  THEN LET parts == split(name, ".")
           lastPart == parts[Len(parts)]
       IN  lastPart \in tlds
  ELSE FALSE

\* ProjectScanner.isDomainLike (src/core/types.ts:1751-1776)
isDomainLike(name) ==
  IF includes(name, <<".">>)
  THEN LET parts == split(toLowerCase(name), ".")
           lastPart == parts[Len(parts)]
       IN  lastPart \in tlds
  ELSE FALSE

\* isSubdomainLike consulting the subdomain patterns before the project folder
\* patterns.
isSubdomainLikePatternsFirst(name) ==
  LET lowerName == toLowerCase(name) IN
  IF lowerName \in subdomainPatterns THEN TRUE
  ELSE IF lowerName \in projectFolderPatterns THEN FALSE
  ELSE IF includes(name, <<".">>) THEN isDomainLike(name)
  ELSE FALSE

\* ProjectScanner.isSubdomainLike (src/core/types.ts:1688-1745)
isSubdomainLike(name) ==
  LET lowerName == toLowerCase(name) IN
  IF lowerName \in projectFolderPatterns THEN FALSE
  ELSE IF includes(name, <<".">>) THEN isDomainLike(name)
  ELSE IF lowerName \in subdomainPatterns THEN TRUE
  ELSE FALSE

\* ProjectScanner.looksLikeProjectFolder (src/core/types.ts:1782-1813)
looksLikeProjectFolder(name) ==
  LET lowerName == toLowerCase(name) IN
  \E i \in 1..Len(projectPatterns) :
    LET pattern == projectPatterns[i] IN
    IF endsWith(pattern, <<"-">>)
    THEN startsWith(lowerName, pattern)
    ELSE includes(lowerName, pattern)

\* File and folder names of the modelled file system, as JavaScript strings.
n_personal == <<"p","e","r","s","o","n","a","l">>
n_x_com == <<"x",".","c","o","m">>
n_api == <<"a","p","i">>
n_src == <<"s","r","c">>
n_www == <<"w","w","w">>
n_acme == <<"a","c","m","e">>
n_site == <<"s","i","t","e">>
n_README_md == <<"R","E","A","D","M","E",".","m","d">>
n_my_app == <<"m","y","-","a","p","p">>
n_web == <<"w","e","b">>
n_package_json == <<"p","a","c","k","a","g","e",".","j","s","o","n">>
n_Professional == <<"P","r","o","f","e","s","s","i","o","n","a","l">>
n_misc == <<"m","i","s","c">>
n_z_dev == <<"z",".","d","e","v">>
n_professional == <<"p","r","o","f","e","s","s","i","o","n","a","l">>

\* The nodes that may exist beneath the scan root, in the order Deno.readDir
\* yields them; a node's path is the list of names leading to it from the root.
FsUniverse ==
  << [path |-> <<n_personal>>, isDirectory |-> TRUE],
     [path |-> <<n_personal, n_x_com>>, isDirectory |-> TRUE],
     [path |-> <<n_personal, n_x_com, n_api>>, isDirectory |-> TRUE],
     [path |-> <<n_personal, n_x_com, n_src>>, isDirectory |-> TRUE],
     [path |-> <<n_personal, n_x_com, n_www>>, isDirectory |-> FALSE],
     [path |-> <<n_personal, n_acme>>, isDirectory |-> TRUE],
     [path |-> <<n_personal, n_acme, n_site>>, isDirectory |-> TRUE],
     [path |-> <<n_personal, n_acme, n_site, n_README_md>>, isDirectory |-> FALSE],
     [path |-> <<n_personal, n_my_app>>, isDirectory |-> TRUE],
     [path |-> <<n_personal, n_my_app, n_web>>, isDirectory |-> TRUE],
     [path |-> <<n_personal, n_my_app, n_web, n_package_json>>, isDirectory |-> FALSE],
     [path |-> <<n_Professional>>, isDirectory |-> TRUE],
     [path |-> <<n_Professional, n_x_com>>, isDirectory |-> TRUE],
     [path |-> <<n_misc>>, isDirectory |-> TRUE],
     [path |-> <<n_misc, n_z_dev>>, isDirectory |-> TRUE],
     [path |-> <<n_professional>>, isDirectory |-> FALSE] >>
----------------------------------------------------------------------------
(* Bounds of the model *)

\* At most this many files and folders exist beneath the scan root.
MaxNodes == 4

\* The same bound for the specification with fairness.
MaxFairNodes == 2

\* At most this many scanProjects() calls are issued while one scan is in flight.
MaxOverlap == 1

\* A name given to the classifiers has at most this many dot-separated parts.
MaxLabels == 3

\* At most this many file-system events occur while the watcher is observed.
MaxEvents == 2

\* At most this many startWatching() calls reach their for await loop.
MaxLoops == 2

\* At most this many environment variables are set when the configuration is
\* loaded.
MaxSet == 3

\* At most this many projects are held by the metadata store.
MaxStored == 2

\* The counters of the store's statistics stay within -MaxCounter..MaxCounter.
MaxCounter == 2

\* The bound on the nodes of the tree for the specification of the scan route.
MaxSweepNodes == 4

\* The bound on the nodes of the tree for the specification of the path labels.
MaxLabelNodes == 3

\* At most this many entries exist in the directory the detector is pointed to.
MaxEntries == 4

----------------------------------------------------------------------------
(* State *)

VARIABLES
  \* ProjectScanner fields (src/core/types.ts:1460-1465)
  scanInProgress,          \* private scanInProgress: boolean
  lastScanTime,            \* private lastScanTime: Date | null
  lastDiscoveredProjects,  \* private lastDiscoveredProjects: Array<{path, category, domain?, subdomain?}>
  \* the scanProjects() call in flight: its position and its locals
  pc,                      \* "idle" | "stat" | "readRoot" | "categories" | "items"
  result,                  \* const result: ScanResult
  projects,                \* discoverProjects: const projects
  categories,              \* entries of the root listing still to be iterated
  categoryName,            \* discoverProjects: const categoryName
  categoryPath,            \* discoverProjects: const categoryPath
  items,                   \* entries of the category listing still to be iterated
  elapsed,                 \* Date.now() - startTime, one tick per awaited step
  readDirCalls,            \* Deno.readDir calls made by the scan in flight
  \* what the callers of scanProjects() received
  returned,                \* the ScanResult the last completed call returned
  thrown,                  \* the Error the last call threw, or "none"
  callsDuringScan,         \* scanProjects() calls issued while the scan in flight ran
  repeatedScan,            \* the last completed scan saw the file system of the one before
  \* the file system beneath projectsPath
  rootKind,                \* "dir" | "file" | "missing": what Deno.stat finds at projectsPath
  tree,                    \* the nodes that exist: indices into FsUniverse
  denied,                  \* the directory whose listing fails, if any: {index}, 0 the root
  fsChanged,               \* the file system changed since the last scan returned
  \* ProjectDetector: what it is pointed to and what its callers received
  directory,               \* the content of the directory detectProject analyses
  basicInfo,               \* what the last getBasicProjectInfo() call returned
  detected,                \* what the last detectProject() call returned
  \* isDomainLike / isSubdomainLike called on their own
  candidate,               \* the name they are called with
  domainLike,              \* what isDomainLike(candidate) returned
  subdomainLike,           \* what isSubdomainLike(candidate) returned
  \* ProjectScanner: the file watcher (src/core/types.ts:1461, 1464, 1818-1857)
  watcherActive,           \* private watcherActive: boolean
  eventCallbacks,          \* private eventCallbacks: Array<(event) => void>
  loops,                   \* the startWatching() calls that reached their for await loop
  emitted,                 \* the file-system events that occurred beneath projectsPath
  notified,                \* how often each listener was called with each event
  stopRequested,           \* stopWatching() was called and startWatching() not since
  \* loadPDEConfig (src/unnamed/part_000:61-98)
  env,                     \* Deno.env: the value of each variable, or undefined
  config,                  \* what loadPDEConfig() returned
  \* MetadataManager (src/core/types.ts:291-464)
  metadata,                \* private metadata: PDEMetadata | null
  metadataFile,            \* the projects the file at metadataPath holds, if it exists
  upserted,                \* per id: the record last given to addOrUpdateProject, unless removed since
  lastCall                 \* the last call made to the store or to the DELETE route, and its outcome

scannerVars == <<scanInProgress, lastScanTime, lastDiscoveredProjects>>
scanLocals  == <<pc, result, projects, categories, categoryName, categoryPath, items,
                 elapsed, readDirCalls>>
callerVars  == <<returned, thrown, callsDuringScan, repeatedScan>>
fsVars      == <<rootKind, tree, denied, fsChanged>>
detectorVars == <<directory, basicInfo, detected>>
classifierVars == <<candidate, domainLike, subdomainLike>>
watcherVars == <<watcherActive, eventCallbacks, loops, emitted, notified, stopRequested>>
configVars  == <<env, config>>
storeVars   == <<metadata, metadataFile, upserted, lastCall>>
serviceVars == <<classifierVars, watcherVars, configVars, storeVars>>
vars        == <<scannerVars, scanLocals, callerVars, fsVars, detectorVars, serviceVars>>

----------------------------------------------------------------------------
(* The file system: Deno.stat and Deno.readDir *)

\* constructor(projectsPath): the scanner is created for an absolute path,
\* which normalizePath leaves as it is.
projectsPath == <<"/","p","d","e">>

\* The names that lead from the scan root to an absolute path.
RelativeNames(path) ==
  LET parts == split(path, "/")
      rootParts == split(projectsPath, "/")
  IN  SubSeq(parts, Len(rootParts) + 1, Len(parts))

\* The node an absolute path names: 0 the root, -1 none, else an index of FsUniverse.
NodeAt(path) ==
  LET rel == RelativeNames(path) IN
  IF path # projectsPath /\ ~startsWith(path, projectsPath \o <<"/">>) THEN -1
  ELSE IF rel = <<>> THEN (IF rootKind = "missing" THEN -1 ELSE 0)
  ELSE LET found == {i \in tree : FsUniverse[i].path = rel}
       IN  IF rootKind # "dir" \/ found = {} THEN -1 ELSE CHOOSE i \in found : TRUE

NodeIsDirectory(n) ==
  IF n = 0 THEN rootKind = "dir" ELSE n > 0 /\ FsUniverse[n].isDirectory

\* The directory entries of node n, as Deno.readDir yields them.
EntriesOf(n) ==
  LET dirPath == IF n = 0 THEN <<>> ELSE FsUniverse[n].path
      isChild(i) == /\ i \in tree
                    /\ Len(FsUniverse[i].path) = Len(dirPath) + 1
                    /\ SubSeq(FsUniverse[i].path, 1, Len(dirPath)) = dirPath
      idx == SelectSeq([i \in 1..Len(FsUniverse) |-> i], isChild)
  IN  [k \in 1..Len(idx) |->
         [name        |-> FsUniverse[idx[k]].path[Len(dirPath) + 1],
          isFile      |-> ~FsUniverse[idx[k]].isDirectory,
          isDirectory |-> FsUniverse[idx[k]].isDirectory]]

\* Deno.readDir(path): the entries, or the error the iteration raises.
readDir(path) ==
  LET n == NodeAt(path) IN
  IF n = -1 THEN [ok |-> FALSE, error |-> "NotFound", entries |-> <<>>]
  ELSE IF ~NodeIsDirectory(n) THEN [ok |-> FALSE, error |-> "NotADirectory", entries |-> <<>>]
  ELSE IF n \in denied THEN [ok |-> FALSE, error |-> "PermissionDenied", entries |-> <<>>]
  ELSE [ok |-> TRUE, error |-> "none", entries |-> EntriesOf(n)]

\* Mutant of directoryExists: the stat succeeds, isDirectory is not looked at.
directoryExistsAnyKind(path) == NodeAt(path) # -1

\* ProjectScanner.directoryExists (src/core/types.ts:1904-1911)
directoryExists(path) ==
  LET n == NodeAt(path) IN
  IF n = -1 THEN FALSE ELSE NodeIsDirectory(n)

----------------------------------------------------------------------------
(* ProjectScanner: the traversal *)

\* ProjectScanner.isProjectDirectory (src/core/types.ts:1650-1681)
isProjectDirectory(path) ==
  LET listing == readDir(path) IN
  IF ~listing.ok THEN FALSE
  ELSE \E i \in 1..Len(listing.entries) :
         toLowerCase(listing.entries[i].name) \in indicators

\* Mutant of isCategoryName: every level-1 folder is taken for a category.
anyCategoryName(name) == TRUE

\* discoverProjects: the category test of the first level (lines 1540-1544)
isCategoryName(name) ==
  name = n_personal \/ name = n_professional

\* Mutant of newProjects: the traversal appends to the list of the last scan.
staleProjects == lastDiscoveredProjects

\* discoverProjects: const projects = [] (line 1533)
newProjects == <<>>

\* discoverProjects: the location pushed for a domain folder (lines 1563-1577):
\* both branches of isDomainProject push the same object.
domainLocation(itemPath, category, item, isDomainProject) ==
  IF isDomainProject
  THEN <<[path |-> itemPath, category |-> category, domain |-> item.name]>>
  ELSE <<[path |-> itemPath, category |-> category, domain |-> item.name]>>

\* Mutant of isSubdomainProject: every child directory is a subdomain project.
anyDirectoryIsSubdomain(subItem) == subItem.isDirectory

\* discoverProjects: the test that makes a child of a domain folder a subdomain
\* project (lines 1582-1589)
isSubdomainProject(subItem) ==
  subItem.isDirectory /\ isSubdomainLike(subItem.name)

\* discoverProjects: the locations pushed for the children of a domain folder
\* (lines 1580-1605); a listing error is caught and leaves them out.
subdomainLocations(itemPath, category, item) ==
  LET listing == readDir(itemPath)
      kept == SelectSeq(listing.entries, isSubdomainProject)
  IN  IF ~listing.ok THEN <<>>
      ELSE [k \in 1..Len(kept) |->
              [path      |-> joinPath(itemPath, kept[k].name),
               category  |-> category,
               domain    |-> item.name,
               subdomain |-> kept[k].name]]

\* containerLocations without the isProjectDirectory test: every child
\* directory of the container is recorded.
containerLocationsOfEveryDirectory(itemPath, category, item) ==
  LET listing == readDir(itemPath)
      isSubProject(subItem) == subItem.isDirectory
      kept == SelectSeq(listing.entries, isSubProject)
  IN  IF ~listing.ok THEN <<>>
      ELSE [k \in 1..Len(kept) |->
              [path      |-> joinPath(itemPath, kept[k].name),
               category  |-> category,
               domain    |-> item.name,
               subdomain |-> kept[k].name]]

\* discoverProjects: the locations pushed for the children of a non-domain
\* container (lines 1617-1635); a listing error is caught and leaves them out.
containerLocations(itemPath, category, item) ==
  LET listing == readDir(itemPath)
      isSubProject(subItem) ==
        subItem.isDirectory /\ isProjectDirectory(joinPath(itemPath, subItem.name))
      kept == SelectSeq(listing.entries, isSubProject)
  IN  IF ~listing.ok THEN <<>>
      ELSE [k \in 1..Len(kept) |->
              [path      |-> joinPath(itemPath, kept[k].name),
               category  |-> category,
               domain    |-> item.name,
               subdomain |-> kept[k].name]]

\* itemLocations without the looksLikeProjectFolder test: a project-like
\* folder is scanned as a container.
itemLocationsScanningProjectFolders(item) ==
  LET itemPath == joinPath(categoryPath, item.name) IN
  IF ~item.isDirectory THEN <<>>
  ELSE IF isDomainLike(item.name)
  THEN domainLocation(itemPath, categoryName, item, isProjectDirectory(itemPath))
         \o subdomainLocations(itemPath, categoryName, item)
  ELSE containerLocations(itemPath, categoryName, item)

\* discoverProjects: one iteration of the second-level loop (lines 1550-1637):
\* the locations the item adds to projects.
itemLocations(item) ==
  LET itemPath == joinPath(categoryPath, item.name) IN
  IF ~item.isDirectory THEN <<>>
  ELSE IF isDomainLike(item.name)
  THEN domainLocation(itemPath, categoryName, item, isProjectDirectory(itemPath))
         \o subdomainLocations(itemPath, categoryName, item)
  ELSE IF looksLikeProjectFolder(item.name) THEN <<>>
  ELSE containerLocations(itemPath, categoryName, item)

\* The Deno.readDir calls one iteration of the second-level loop makes.
itemReadDirCalls(item) ==
  LET itemPath == joinPath(categoryPath, item.name)
      listing == readDir(itemPath)
  IN  IF ~item.isDirectory THEN 0
      ELSE IF isDomainLike(item.name) THEN 2
      ELSE IF looksLikeProjectFolder(item.name) THEN 0
      ELSE 1 + Cardinality({i \in 1..Len(listing.entries) : listing.entries[i].isDirectory})

\* scanProjects: const result: ScanResult = {...} (lines 1481-1490)
newResult ==
  [success |-> FALSE, projectsFound |-> 0, projectsAdded |-> 0, projectsUpdated |-> 0,
   projectsRemoved |-> 0, errors |-> <<>>, scanDuration |-> 0]

\* The value returned before any call completed.
NoResult == [success |-> FALSE, projectsFound |-> -1, projectsAdded |-> 0,
             projectsUpdated |-> 0, projectsRemoved |-> 0, errors |-> <<>>,
             scanDuration |-> -1]

\* Mutant of scanGuard: the guard is missing.
scanGuardOff == FALSE

\* scanProjects: if (this.scanInProgress) (line 1475)
scanGuard == scanInProgress

\* Mutant of finally: the in-progress flag is not cleared.
finallyLeavesFlag(res) ==
  /\ scanInProgress' = scanInProgress
  /\ returned' = [res EXCEPT !.scanDuration = elapsed + 1]
  /\ pc' = "idle"
  /\ result' = newResult
  /\ projects' = <<>>
  /\ categories' = <<>>
  /\ categoryName' = <<>>
  /\ categoryPath' = <<>>
  /\ items' = <<>>
  /\ elapsed' = 0
  /\ fsChanged' = FALSE
  /\ repeatedScan' = (~fsChanged /\ returned # NoResult)
  /\ UNCHANGED <<thrown, callsDuringScan, rootKind, tree, denied, detectorVars, serviceVars>>

\* scanProjects: the finally block and the return (lines 1520-1526); the locals
\* of the finished call are dropped. The clock advances by one tick per awaited
\* step, the step that ends the scan included, so Date.now() - startTime is
\* elapsed + 1.
finally(res) ==
  /\ scanInProgress' = FALSE
  /\ returned' = [res EXCEPT !.scanDuration = elapsed + 1]
  /\ pc' = "idle"
  /\ result' = newResult
  /\ projects' = <<>>
  /\ categories' = <<>>
  /\ categoryName' = <<>>
  /\ categoryPath' = <<>>
  /\ items' = <<>>
  /\ elapsed' = 0
  /\ fsChanged' = FALSE
  /\ repeatedScan' = (~fsChanged /\ returned # NoResult)
  /\ UNCHANGED <<thrown, callsDuringScan, rootKind, tree, denied, detectorVars, serviceVars>>

\* Mutant of scanFailed: the partial list of the failed traversal is stored.
scanFailedStoringPartial(message, calls) ==
  /\ finally([result EXCEPT !.errors = Append(@, [path |-> projectsPath, error |-> message])])
  /\ readDirCalls' = calls
  /\ lastDiscoveredProjects' = projects
  /\ UNCHANGED lastScanTime

\* scanProjects: the catch block (lines 1513-1519), then finally.
scanFailed(message, calls) ==
  /\ finally([result EXCEPT !.errors = Append(@, [path |-> projectsPath, error |-> message])])
  /\ readDirCalls' = calls
  /\ UNCHANGED <<lastScanTime, lastDiscoveredProjects>>

\* scanProjects: the rest of the try block once discoverProjects returned
\* (lines 1502-1511), then finally.
scanSucceeded(foundProjects) ==
  /\ lastDiscoveredProjects' = foundProjects
  /\ lastScanTime' = "Date"
  /\ finally([result EXCEPT !.projectsFound = Len(foundProjects), !.success = TRUE])
  /\ UNCHANGED readDirCalls

\* scanProjects() is called (lines 1474-1490): it throws while a scan is in
\* progress, and otherwise marks the scan as running and builds its result.
ScanProjects ==
  /\ scanInProgress => callsDuringScan < MaxOverlap
  /\ callsDuringScan' = IF scanInProgress THEN callsDuringScan + 1 ELSE 0
  /\ IF scanGuard
     THEN /\ thrown' = "Scan already in progress"
          /\ UNCHANGED <<scannerVars, scanLocals, returned, repeatedScan, fsVars, detectorVars, serviceVars>>
     ELSE /\ scanInProgress' = TRUE
          /\ thrown' = "none"
          /\ result' = newResult
          /\ elapsed' = 0
          /\ readDirCalls' = 0
          /\ pc' = "stat"
          /\ projects' = <<>>
          /\ categories' = <<>>
          /\ categoryName' = <<>>
          /\ categoryPath' = <<>>
          /\ items' = <<>>
          /\ UNCHANGED <<lastScanTime, lastDiscoveredProjects, returned, repeatedScan,
                         fsVars, detectorVars, serviceVars>>

\* await this.directoryExists(this.projectsPath) (lines 1496-1499)
CheckRoot ==
  /\ pc = "stat"
  /\ IF directoryExists(projectsPath)
     THEN /\ pc' = "readRoot"
          /\ elapsed' = elapsed + 1
          /\ UNCHANGED <<scannerVars, result, projects, categories, categoryName,
                         categoryPath, items, readDirCalls, callerVars, fsVars, detectorVars, serviceVars>>
     ELSE scanFailed(<<"Projects directory not found: ", projectsPath>>, readDirCalls)

\* discoverProjects: Deno.readDir(this.projectsPath) is opened (lines 1533-1537)
ReadRoot ==
  /\ pc = "readRoot"
  /\ LET listing == readDir(projectsPath) IN
     IF listing.ok
     THEN /\ pc' = "categories"
          /\ projects' = newProjects
          /\ categories' = listing.entries
          /\ elapsed' = elapsed + 1
          /\ readDirCalls' = readDirCalls + 1
          /\ UNCHANGED <<scannerVars, result, categoryName, categoryPath, items,
                         callerVars, fsVars, detectorVars, serviceVars>>
     ELSE scanFailed(<<listing.error>>, readDirCalls + 1)

\* discoverProjects: one iteration of the first-level loop up to the opening of
\* the category's listing (lines 1537-1550); the loop's end returns projects.
NextCategory ==
  /\ pc = "categories"
  /\ IF categories = <<>>
     THEN scanSucceeded(projects)
     ELSE LET category == Head(categories)
              name == toLowerCase(category.name)
              path == joinPath(projectsPath, category.name)
              listing == readDir(path)
          IN  IF ~category.isDirectory \/ ~isCategoryName(name)
              THEN /\ categories' = Tail(categories)
                   /\ elapsed' = elapsed + 1
                   /\ UNCHANGED <<scannerVars, pc, result, projects, categoryName,
                                  categoryPath, items, readDirCalls, callerVars, fsVars, detectorVars, serviceVars>>
              ELSE IF listing.ok
              THEN /\ categories' = Tail(categories)
                   /\ categoryName' = name
                   /\ categoryPath' = path
                   /\ items' = listing.entries
                   /\ pc' = "items"
                   /\ elapsed' = elapsed + 1
                   /\ readDirCalls' = readDirCalls + 1
                   /\ UNCHANGED <<scannerVars, result, projects, callerVars, fsVars, detectorVars, serviceVars>>
              ELSE scanFailed(<<listing.error>>, readDirCalls + 1)

\* discoverProjects: one iteration of the second-level loop (lines 1550-1637)
NextItem ==
  /\ pc = "items"
  /\ IF items = <<>>
     THEN /\ pc' = "categories"
          /\ UNCHANGED <<projects, items, elapsed, readDirCalls>>
     ELSE /\ projects' = projects \o itemLocations(Head(items))
          /\ items' = Tail(items)
          /\ elapsed' = elapsed + 1
          /\ readDirCalls' = readDirCalls + itemReadDirCalls(Head(items))
          /\ pc' = "items"
  /\ UNCHANGED <<scannerVars, result, categories, categoryName, categoryPath,
                 callerVars, fsVars, detectorVars, serviceVars>>

\* ProjectScanner.getDiscoveredProjects (src/core/types.ts:1891-1893)
getDiscoveredProjects == lastDiscoveredProjects

----------------------------------------------------------------------------
(* ProjectDetector: the directory detectProject is pointed to *)

\* The files and folders that may exist in that directory, in the order
\* Deno.readDir yields them.
EntryPool ==
  << [name |-> <<"p","a","c","k","a","g","e",".","j","s","o","n">>, isFile |-> TRUE, isDirectory |-> FALSE],
     [name |-> <<"s","r","c">>, isFile |-> FALSE, isDirectory |-> TRUE],
     [name |-> <<"n","e","x","t",".","c","o","n","f","i","g",".","j","s">>, isFile |-> TRUE, isDirectory |-> FALSE],
     [name |-> <<"p","a","g","e","s">>, isFile |-> FALSE, isDirectory |-> TRUE],
     [name |-> <<"v","u","e",".","c","o","n","f","i","g",".","j","s">>, isFile |-> TRUE, isDirectory |-> FALSE],
     [name |-> <<"v","i","t","e",".","c","o","n","f","i","g",".","t","s">>, isFile |-> TRUE, isDirectory |-> FALSE],
     [name |-> <<"R","E","A","D","M","E",".","m","d">>, isFile |-> TRUE, isDirectory |-> FALSE],
     [name |-> <<".","g","i","t">>, isFile |-> FALSE, isDirectory |-> TRUE],
     [name |-> <<"d","e","n","o",".","j","s","o","n","c">>, isFile |-> TRUE, isDirectory |-> FALSE],
     [name |-> <<"i","n","d","e","x",".","h","t","m","l">>, isFile |-> TRUE, isDirectory |-> FALSE],
     [name |-> <<"n","e","x","t",".","c","o","n","f","i","g",".","t","s">>, isFile |-> TRUE, isDirectory |-> FALSE] >>

\* A version as package.json gives it: a string, or a value of another JSON
\* type (a number, an object), which is truthy.
versionString(text) == [isString |-> TRUE, text |-> text]
versionNumber == [isString |-> FALSE, text |-> <<>>]

\* No package.json in the directory.
NoManifest ==
  [json |-> "absent", dependencies |-> <<>>, devDependencies |-> <<>>, scripts |-> <<>>]

\* The contents a package.json may have: text that is no JSON, the JSON value
\* null, or an object with dependencies, devDependencies and scripts.
Manifests ==
  { [json |-> "invalid", dependencies |-> <<>>, devDependencies |-> <<>>, scripts |-> <<>>],
    [json |-> "null", dependencies |-> <<>>, devDependencies |-> <<>>, scripts |-> <<>>],
    [json |-> "object", dependencies |-> <<>>, devDependencies |-> <<>>, scripts |-> <<>>],
    [json |-> "object",
     dependencies |-> << [name |-> <<"r","e","a","c","t">>, version |-> versionString(<<"^","1","8",".","2",".","0">>)],
                         [name |-> <<"r","e","a","c","t","-","d","o","m">>, version |-> versionString(<<"^","1","8",".","2",".","0">>)] >>,
     devDependencies |-> <<>>,
     scripts |-> <<>>],
    [json |-> "object",
     dependencies |-> << [name |-> <<"r","e","a","c","t">>, version |-> versionString(<<"^","1","8",".","2",".","0">>)],
                         [name |-> <<"r","e","a","c","t","-","d","o","m">>, version |-> versionString(<<"^","1","8",".","2",".","0">>)] >>,
     devDependencies |-> << [name |-> <<"t","y","p","e","s","c","r","i","p","t">>, version |-> versionString(<<"~","5",".","4">>)],
                            [name |-> <<"@","v","i","t","e","j","s","/","p","l","u","g","i","n","-","v","u","e">>, version |-> versionString(<<"5",".","0",".","1">>)] >>,
     scripts |-> <<<<"d","e","v">>, <<"b","u","i","l","d">>, <<"s","t","a","r","t">>>>],
    [json |-> "object",
     dependencies |-> << [name |-> <<"n","e","x","t">>, version |-> versionString(<<"1","4",".","1",".","0">>)],
                         [name |-> <<"r","e","a","c","t">>, version |-> versionString(<<"^","1","8",".","2",".","0">>)],
                         [name |-> <<"r","e","a","c","t","-","d","o","m">>, version |-> versionString(<<"^","1","8",".","2",".","0">>)] >>,
     devDependencies |-> <<>>,
     scripts |-> <<<<"d","e","v">>, <<"b","u","i","l","d">>>>],
    [json |-> "object",
     dependencies |-> << [name |-> <<"r","e","a","c","t">>, version |-> versionNumber],
                         [name |-> <<"r","e","a","c","t","-","d","o","m">>, version |-> versionNumber] >>,
     devDependencies |-> <<>>,
     scripts |-> <<>>],
    [json |-> "object",
     dependencies |-> << [name |-> <<"r","e","a","c","t","-","d","o","m">>, version |-> versionString(<<"^","1","8",".","2",".","0">>)] >>,
     devDependencies |-> <<>>,
     scripts |-> <<>>] }

\* The index of an entry of EntryPool, by name.
PoolIndex(name) == CHOOSE i \in 1..Len(EntryPool) : EntryPool[i].name = name

\* The directories detectProject may be pointed to: at most MaxEntries entries
\* of the pool, listable or not, src with or without a folder app in it, and a
\* content for package.json when that file is there.
Directories ==
  {d \in [listable : BOOLEAN,
          present : {s \in SUBSET (1..Len(EntryPool)) : Cardinality(s) <= MaxEntries},
          srcApp : BOOLEAN,
          packageJson : Manifests \cup {NoManifest}] :
     /\ d.srcApp => PoolIndex(<<"s","r","c">>) \in d.present
     /\ (d.packageJson # NoManifest) <=> (PoolIndex(<<"p","a","c","k","a","g","e",".","j","s","o","n">>) \in d.present)}

\* A directory that does not exist.
NoDirectory ==
  [listable |-> FALSE, present |-> {}, srcApp |-> FALSE, packageJson |-> NoManifest]

\* Deno.readDir(projectPath) as the detector sees it.
detectorReadDir(projectPath) ==
  LET isPresent(e) == PoolIndex(e.name) \in directory.present IN
  IF directory.listable
  THEN [ok |-> TRUE, error |-> "none", entries |-> SelectSeq(EntryPool, isPresent)]
  ELSE [ok |-> FALSE, error |-> "PermissionDenied", entries |-> <<>>]

\* Deno.stat(`${projectPath}/${name}`): "file", "dir", or "none" when it throws.
detectorStat(projectPath, name) ==
  LET found == {i \in directory.present : EntryPool[i].name = name} IN
  IF name = <<"s","r","c","/","a","p","p">>
  THEN (IF directory.srcApp THEN "dir" ELSE "none")
  ELSE IF found = {} THEN "none"
  ELSE IF EntryPool[CHOOSE i \in found : TRUE].isFile THEN "file" ELSE "dir"

----------------------------------------------------------------------------
(* ProjectDetector *)

\* const DETECTION_PATTERNS (src/core/types.ts:1997-2104); confidence is in
\* hundredths, and defined names the optional lists a pattern has.
DETECTION_PATTERNS ==
  << [type |-> "next",
      files |-> <<<<"n","e","x","t",".","c","o","n","f","i","g",".","j","s">>, <<"n","e","x","t",".","c","o","n","f","i","g",".","t","s">>, <<"n","e","x","t",".","c","o","n","f","i","g",".","m","j","s">>>>,
      folders |-> <<<<"p","a","g","e","s">>, <<"a","p","p">>>>,
      packageJsonDeps |-> <<<<"n","e","x","t">>>>,
      packageJsonDevDeps |-> <<>>,
      packageJsonScripts |-> <<<<"d","e","v">>, <<"b","u","i","l","d">>>>,
      defined |-> {"packageJsonDeps", "packageJsonScripts"},
      confidence |-> 95, priority |-> 10],
     [type |-> "nuxt",
      files |-> <<<<"n","u","x","t",".","c","o","n","f","i","g",".","j","s">>, <<"n","u","x","t",".","c","o","n","f","i","g",".","t","s">>>>,
      folders |-> <<<<"p","a","g","e","s">>, <<"c","o","m","p","o","n","e","n","t","s">>>>,
      packageJsonDeps |-> <<<<"n","u","x","t">>, <<"@","n","u","x","t","/">>>>,
      packageJsonDevDeps |-> <<>>,
      packageJsonScripts |-> <<>>,
      defined |-> {"packageJsonDeps"},
      confidence |-> 95, priority |-> 9],
     [type |-> "react",
      files |-> <<>>,
      folders |-> <<<<"s","r","c">>>>,
      packageJsonDeps |-> <<<<"r","e","a","c","t">>, <<"r","e","a","c","t","-","d","o","m">>>>,
      packageJsonDevDeps |-> <<<<"@","t","y","p","e","s","/","r","e","a","c","t">>, <<"v","i","t","e">>, <<"c","r","e","a","t","e","-","r","e","a","c","t","-","a","p","p">>>>,
      packageJsonScripts |-> <<>>,
      defined |-> {"packageJsonDeps", "packageJsonDevDeps"},
      confidence |-> 85, priority |-> 8],
     [type |-> "vue",
      files |-> <<<<"v","u","e",".","c","o","n","f","i","g",".","j","s">>, <<"v","i","t","e",".","c","o","n","f","i","g",".","t","s">>>>,
      folders |-> <<<<"s","r","c">>>>,
      packageJsonDeps |-> <<<<"v","u","e">>>>,
      packageJsonDevDeps |-> <<<<"@","v","i","t","e","j","s","/","p","l","u","g","i","n","-","v","u","e">>, <<"@","v","u","e","/","c","l","i">>>>,
      packageJsonScripts |-> <<>>,
      defined |-> {"packageJsonDeps", "packageJsonDevDeps"},
      confidence |-> 85, priority |-> 7],
     [type |-> "svelte",
      files |-> <<<<"s","v","e","l","t","e",".","c","o","n","f","i","g",".","j","s">>, <<"v","i","t","e",".","c","o","n","f","i","g",".","j","s">>>>,
      folders |-> <<<<"s","r","c">>>>,
      packageJsonDeps |-> <<<<"s","v","e","l","t","e">>>>,
      packageJsonDevDeps |-> <<<<"@","s","v","e","l","t","e","j","s","/">>, <<"v","i","t","e">>>>,
      packageJsonScripts |-> <<>>,
      defined |-> {"packageJsonDeps", "packageJsonDevDeps"},
      confidence |-> 85, priority |-> 6],
     [type |-> "angular",
      files |-> <<<<"a","n","g","u","l","a","r",".","j","s","o","n">>, <<"n","g","-","p","a","c","k","a","g","e",".","j","s","o","n">>>>,
      folders |-> <<<<"s","r","c","/","a","p","p">>>>,
      packageJsonDeps |-> <<<<"@","a","n","g","u","l","a","r","/","c","o","r","e">>>>,
      packageJsonDevDeps |-> <<<<"@","a","n","g","u","l","a","r","/","c","l","i">>>>,
      packageJsonScripts |-> <<>>,
      defined |-> {"packageJsonDeps", "packageJsonDevDeps"},
      confidence |-> 90, priority |-> 5],
     [type |-> "deno",
      files |-> <<<<"d","e","n","o",".","j","s","o","n">>, <<"d","e","n","o",".","j","s","o","n","c">>, <<"d","e","p","s",".","t","s">>, <<"m","o","d",".","t","s">>>>,
      folders |-> <<>>,
      packageJsonDeps |-> <<>>,
      packageJsonDevDeps |-> <<>>,
      packageJsonScripts |-> <<>>,
      defined |-> {"packageJsonDeps"},
      confidence |-> 90, priority |-> 4],
     [type |-> "node",
      files |-> <<<<"p","a","c","k","a","g","e",".","j","s","o","n">>>>,
      folders |-> <<<<"n","o","d","e","_","m","o","d","u","l","e","s">>>>,
      packageJsonDeps |-> <<>>,
      packageJsonDevDeps |-> <<>>,
      packageJsonScripts |-> <<<<"s","t","a","r","t">>, <<"d","e","v">>>>,
      defined |-> {"packageJsonDeps", "packageJsonScripts"},
      confidence |-> 70, priority |-> 3],
     [type |-> "static",
      files |-> <<<<"i","n","d","e","x",".","h","t","m","l">>>>,
      folders |-> <<<<"c","s","s">>, <<"j","s">>, <<"i","m","a","g","e","s">>, <<"a","s","s","e","t","s">>>>,
      packageJsonDeps |-> <<>>,
      packageJsonDevDeps |-> <<>>,
      packageJsonScripts |-> <<>>,
      defined |-> {"packageJsonDeps"},
      confidence |-> 60, priority |-> 2],
     [type |-> "wordpress",
      files |-> <<<<"w","p","-","c","o","n","f","i","g",".","p","h","p">>, <<"i","n","d","e","x",".","p","h","p">>>>,
      folders |-> <<<<"w","p","-","c","o","n","t","e","n","t">>, <<"w","p","-","i","n","c","l","u","d","e","s">>, <<"w","p","-","a","d","m","i","n">>>>,
      packageJsonDeps |-> <<>>,
      packageJsonDevDeps |-> <<>>,
      packageJsonScripts |-> <<>>,
      defined |-> {"packageJsonDeps"},
      confidence |-> 95, priority |-> 1] >>

\* ProjectDetector.getEmptyIndicators (src/core/types.ts:2558-2570)
getEmptyIndicators ==
  [packageJson |-> FALSE, denoJson |-> FALSE, indexHtml |-> FALSE, readme |-> FALSE,
   gitRepo |-> FALSE, nodeModules |-> FALSE, srcFolder |-> FALSE, publicFolder |-> FALSE,
   buildFolder |-> FALSE]

\* ProjectDetector.gatherIndicators (src/core/types.ts:2180-2235); a listing
\* that fails leaves the empty indicators.
gatherIndicators(listing) ==
  LET hasFile(names) ==
        \E i \in 1..Len(listing.entries) :
          listing.entries[i].isFile /\ toLowerCase(listing.entries[i].name) \in names
      hasFolder(names) ==
        \E i \in 1..Len(listing.entries) :
          listing.entries[i].isDirectory /\ toLowerCase(listing.entries[i].name) \in names
  IN  IF ~listing.ok THEN getEmptyIndicators
      ELSE [packageJson  |-> hasFile({<<"p","a","c","k","a","g","e",".","j","s","o","n">>}),
            denoJson     |-> hasFile({<<"d","e","n","o",".","j","s","o","n">>, <<"d","e","n","o",".","j","s","o","n","c">>}),
            indexHtml    |-> hasFile({<<"i","n","d","e","x",".","h","t","m","l">>}),
            readme       |-> hasFile({<<"r","e","a","d","m","e",".","m","d">>, <<"r","e","a","d","m","e",".","t","x","t">>}),
            gitRepo      |-> hasFolder({<<".","g","i","t">>}),
            nodeModules  |-> hasFolder({<<"n","o","d","e","_","m","o","d","u","l","e","s">>}),
            srcFolder    |-> hasFolder({<<"s","r","c">>}),
            publicFolder |-> hasFolder({<<"p","u","b","l","i","c">>}),
            buildFolder  |-> hasFolder({<<"b","u","i","l","d">>, <<"d","i","s","t">>, <<"o","u","t">>})]

\* ProjectDetector.fileExists (src/core/types.ts:2572-2579)
fileExists(projectPath, fileName) == detectorStat(projectPath, fileName) = "file"

\* ProjectDetector.folderExists (src/core/types.ts:2581-2588)
folderExists(projectPath, folderName) == detectorStat(projectPath, folderName) = "dir"

\* parsePackageJson falling back, for a package.json that cannot be parsed, to
\* an object with the scripts dev, build and start.
parsePackageJsonWithDefaults(projectPath) ==
  IF ~fileExists(projectPath, <<"p","a","c","k","a","g","e",".","j","s","o","n">>)
  THEN [isNull |-> TRUE, raw |-> NoManifest]
  ELSE IF directory.packageJson.json = "object"
  THEN [isNull |-> FALSE, raw |-> directory.packageJson]
  ELSE [isNull |-> FALSE,
        raw |-> [json |-> "object", dependencies |-> <<>>, devDependencies |-> <<>>,
                 scripts |-> <<<<"d","e","v">>, <<"b","u","i","l","d">>, <<"s","t","a","r","t">>>>]]

\* ProjectDetector.parsePackageJson (src/core/types.ts:2413-2433): null when the
\* file cannot be read, is no JSON, or holds null (reading a property of null
\* throws inside the try); raw is the parsed content otherwise.
parsePackageJson(projectPath) ==
  IF fileExists(projectPath, <<"p","a","c","k","a","g","e",".","j","s","o","n">>) /\ directory.packageJson.json = "object"
  THEN [isNull |-> FALSE, raw |-> directory.packageJson]
  ELSE [isNull |-> TRUE, raw |-> NoManifest]

\* ProjectDetector.hasDependency (src/core/types.ts:2590-2595)
hasDependency(packageData, depName) ==
  \E i \in 1..Len(packageData.dependencies) :
    LET key == packageData.dependencies[i].name IN
    key = depName \/ startsWith(key, depName)

\* ProjectDetector.hasDevDependency (src/core/types.ts:2597-2602)
hasDevDependency(packageData, depName) ==
  \E i \in 1..Len(packageData.devDependencies) :
    LET key == packageData.devDependencies[i].name IN
    key = depName \/ startsWith(key, depName)

\* Array.prototype.map with a template literal `${prefix}${item}`
prefixed(prefix, list) == [i \in 1..Len(list) |-> prefix \o list[i]]

\* ProjectDetector.testPattern (src/core/types.ts:2278-2340). The score is in
\* hundredths: score * confidence + priority, times 100.
testPattern(projectPath, pattern, projectIndicators) ==
  LET isFileThere(file) == fileExists(projectPath, file)
      isFolderThere(folder) == folderExists(projectPath, folder)
      packageData == parsePackageJson(projectPath)
      readsPackage == /\ projectIndicators.packageJson
                      /\ "packageJsonDeps" \in pattern.defined
                      /\ ~packageData.isNull
      isDep(dep) == hasDependency(packageData.raw, dep)
      isDevDep(devDep) == hasDevDependency(packageData.raw, devDep)
      isScript(script) == arrayIncludes(packageData.raw.scripts, script)
      files == SelectSeq(pattern.files, isFileThere)
      folders == SelectSeq(pattern.folders, isFolderThere)
      deps == IF readsPackage THEN SelectSeq(pattern.packageJsonDeps, isDep) ELSE <<>>
      devDeps == IF readsPackage /\ "packageJsonDevDeps" \in pattern.defined
                 THEN SelectSeq(pattern.packageJsonDevDeps, isDevDep) ELSE <<>>
      scripts == IF readsPackage /\ "packageJsonScripts" \in pattern.defined
                 THEN SelectSeq(pattern.packageJsonScripts, isScript) ELSE <<>>
      score == 20 * Len(files) + 15 * Len(folders) + 25 * Len(deps)
                 + 15 * Len(devDeps) + 10 * Len(scripts)
  IN  [score |-> score * pattern.confidence + 100 * pattern.priority,
       matchedIndicators |->
         files \o folders \o prefixed(<<"d","e","p","e","n","d","e","n","c","y",":"," ">>, deps)
           \o prefixed(<<"d","e","v","D","e","p","e","n","d","e","n","c","y",":"," ">>, devDeps) \o prefixed(<<"s","c","r","i","p","t",":"," ">>, scripts)]

\* getFrameworkVersion: const frameworkDeps (src/core/types.ts:2534-2546)
frameworkDeps(type) ==
  CASE type = "react" -> <<<<"r","e","a","c","t">>>>
    [] type = "vue" -> <<<<"v","u","e">>>>
    [] type = "svelte" -> <<<<"s","v","e","l","t","e">>>>
    [] type = "angular" -> <<<<"@","a","n","g","u","l","a","r","/","c","o","r","e">>>>
    [] type = "next" -> <<<<"n","e","x","t">>>>
    [] type = "nuxt" -> <<<<"n","u","x","t">>>>
    [] type = "node" -> <<<<"n","o","d","e">>>>
    [] OTHER -> <<>>

\* String.prototype.replace(/[^0-9.]/g, '')
keepDigitsAndDots(text) ==
  LET isKept(c) == c \in {"0", "1", "2", "3", "4", "5", "6", "7", "8", "9", "."}
  IN  SelectSeq(text, isKept)

\* ProjectDetector.getFrameworkVersion (src/core/types.ts:2513-2554): the version
\* found, or threw when the value found is no string and has no replace method.
\* A devDependencies entry overrides the dependencies entry of the same name.
getFrameworkVersion(projectPath, type) ==
  LET packageDataResult == parsePackageJson(projectPath)
      raw == packageDataResult.raw
      deps == raw.devDependencies \o raw.dependencies
      isTruthy(version) == ~version.isString \/ version.text # <<>>
      lookup(dep) == LET at == {i \in 1..Len(deps) : deps[i].name = dep}
                     IN  IF at = {} THEN versionString(<<>>)
                         ELSE deps[CHOOSE i \in at : \A j \in at : i <= j].version
      isFound(dep) == isTruthy(lookup(dep))
      found == SelectSeq(frameworkDeps(type), isFound)
  IN  IF type = "deno" THEN [threw |-> FALSE, version |-> undefined]
      ELSE IF packageDataResult.isNull \/ found = <<>>
      THEN [threw |-> FALSE, version |-> undefined]
      ELSE IF lookup(found[1]).isString
      THEN [threw |-> FALSE, version |-> keepDigitsAndDots(lookup(found[1]).text)]
      ELSE [threw |-> TRUE, version |-> undefined]

\* bestResult without the sort: the first result is taken.
firstResult(results) == results[1]

\* Mutant of bestResult: the results are sorted by ascending score.
lowestResult(results) ==
  results[CHOOSE i \in 1..Len(results) :
            /\ \A j \in 1..Len(results) : results[j].score >= results[i].score
            /\ \A j \in 1..(i - 1) : results[j].score > results[i].score]

\* detectFramework: results.sort((a, b) => b.score - a.score) and results[0]
\* (lines 2256-2266): the sort is stable, so the first of the results with the
\* highest score comes first.
bestResult(results) ==
  results[CHOOSE i \in 1..Len(results) :
            /\ \A j \in 1..Len(results) : results[j].score <= results[i].score
            /\ \A j \in 1..(i - 1) : results[j].score < results[i].score]

\* detectFramework without Math.min: the confidence is the score over 100.
detectFrameworkUnclamped(projectPath, projectIndicators) ==
  LET tested == [i \in 1..Len(DETECTION_PATTERNS) |->
                   LET r == testPattern(projectPath, DETECTION_PATTERNS[i], projectIndicators)
                   IN  [pattern |-> DETECTION_PATTERNS[i], score |-> r.score,
                        matchedIndicators |-> r.matchedIndicators]]
      isPositive(r) == r.score > 0
      results == SelectSeq(tested, isPositive)
      best == bestResult(results)
      version == getFrameworkVersion(projectPath, best.pattern.type)
  IN  IF results = <<>>
      THEN [threw |-> FALSE,
            framework |-> [type |-> "unknown", confidence |-> 0, indicators |-> <<>>,
                           version |-> undefined]]
      ELSE [threw |-> version.threw,
            framework |-> [type |-> best.pattern.type,
                           confidence |-> best.score,
                           indicators |-> best.matchedIndicators,
                           version |-> version.version]]

\* ProjectDetector.detectFramework (src/core/types.ts:2240-2273); the
\* confidence is in ten-thousandths.
detectFramework(projectPath, projectIndicators) ==
  LET tested == [i \in 1..Len(DETECTION_PATTERNS) |->
                   LET r == testPattern(projectPath, DETECTION_PATTERNS[i], projectIndicators)
                   IN  [pattern |-> DETECTION_PATTERNS[i], score |-> r.score,
                        matchedIndicators |-> r.matchedIndicators]]
      isPositive(r) == r.score > 0
      results == SelectSeq(tested, isPositive)
      best == bestResult(results)
      version == getFrameworkVersion(projectPath, best.pattern.type)
  IN  IF results = <<>>
      THEN [threw |-> FALSE,
            framework |-> [type |-> "unknown", confidence |-> 0, indicators |-> <<>>,
                           version |-> undefined]]
      ELSE [threw |-> version.threw,
            framework |-> [type |-> best.pattern.type,
                           confidence |-> IF best.score < 10000 THEN best.score ELSE 10000,
                           indicators |-> best.matchedIndicators,
                           version |-> version.version]]

\* ProjectDetector.determineProjectStatus (src/core/types.ts:2474-2508)
determineProjectStatus(listing) ==
  LET isProjectFile(i) ==
        toLowerCase(listing.entries[i].name)
          \in {<<"i","n","d","e","x",".","h","t","m","l">>, <<"d","e","n","o",".","j","s","o","n">>, <<"p","a","c","k","a","g","e",".","j","s","o","n">>}
      hasAnyContent == listing.entries # <<>>
      hasProjectFiles == \E i \in 1..Len(listing.entries) : isProjectFile(i)
  IN  IF ~listing.ok THEN "proposed"
      ELSE IF ~hasAnyContent THEN "proposed"
      ELSE IF hasProjectFiles THEN "development"
      ELSE "proposed"

\* projectPath.replace(/\\/g, '/')
replaceBackslashes(s) == [i \in 1..Len(s) |-> IF s[i] = "\\" THEN "/" ELSE s[i]]

\* Array.prototype.findIndex: the first position whose element satisfies the
\* test, counted from 1; 0 stands for JavaScript's -1.
findCategoryIndex(pathParts) ==
  LET isCategory(i) == \/ toLowerCase(pathParts[i]) = <<"p","e","r","s","o","n","a","l">>
                       \/ toLowerCase(pathParts[i]) = <<"p","r","o","f","e","s","s","i","o","n","a","l">>
      at == {i \in 1..Len(pathParts) : isCategory(i)}
  IN  IF at = {} THEN 0 ELSE CHOOSE i \in at : \A j \in at : i <= j

\* Mutant of subdomainIsTaken: the segment after the domain is taken as the
\* subdomain whether or not a domain was found.
subdomainIsTakenWithoutDomain(domain, categoryIndex, pathParts) ==
  categoryIndex + 1 < Len(pathParts)

\* getBasicProjectInfo: if (domain && categoryIndex + 2 < pathParts.length)
\* (line 2368), with categoryIndex counted from 1.
subdomainIsTaken(domain, categoryIndex, pathParts) ==
  /\ domain # undefined
  /\ domain # <<>>
  /\ categoryIndex + 1 < Len(pathParts)

\* ProjectDetector.getBasicProjectInfo (src/core/types.ts:2345-2408); listing
\* is what Deno.readDir(projectPath) gives. Sizes and modification times of
\* files are not part of the model.
getBasicProjectInfo(projectPath, listing) ==
  LET pathParts == split(replaceBackslashes(projectPath), "/")
      projectName == pathParts[Len(pathParts)]
      categoryIndex == findCategoryIndex(pathParts)
      category == IF categoryIndex # 0 THEN toLowerCase(pathParts[categoryIndex])
                  ELSE <<"p","e","r","s","o","n","a","l">>
      domain == IF categoryIndex # 0 /\ categoryIndex < Len(pathParts)
                THEN pathParts[categoryIndex + 1]
                ELSE undefined
      subdomain == IF categoryIndex # 0 /\ subdomainIsTaken(domain, categoryIndex, pathParts)
                   THEN pathParts[categoryIndex + 2]
                   ELSE undefined
      isFileEntry(item) == item.isFile
  IN  [name      |-> projectName,
       path      |-> projectPath,
       category  |-> category,
       domain    |-> domain,
       subdomain |-> subdomain,
       fileCount |-> Len(SelectSeq(listing.entries, isFileEntry)),
       status    |-> determineProjectStatus(listing)]

\* ProjectDetector.detectGitInfo (src/core/types.ts:2438-2466); the content of
\* .git/HEAD is not part of the model.
detectGitInfo(projectPath) ==
  [hasRepo |-> detectorStat(projectPath, <<".","g","i","t">>) = "dir", currentBranch |-> undefined]

\* detectProject without its catch block: the error leaves the call.
detectProjectRethrowing(projectPath) ==
  LET listing == detectorReadDir(projectPath)
      projectIndicators == gatherIndicators(listing)
      detection == detectFramework(projectPath, projectIndicators)
      info == getBasicProjectInfo(projectPath, listing)
  IN  IF detection.threw
      THEN [type |-> "raised"]
      ELSE [name |-> info.name,
            path |-> info.path,
            category |-> info.category,
            domain |-> info.domain,
            subdomain |-> info.subdomain,
            fileCount |-> info.fileCount,
            status |-> info.status,
            type |-> detection.framework.type,
            framework |-> detection.framework,
            indicators |-> projectIndicators,
            git |-> detectGitInfo(projectPath)]

\* ProjectDetector.detectProject (src/core/types.ts:2114-2175): the result of
\* the try block, or of the catch block when detectFramework threw. The fields
\* taken from package.json (displayName, config) are not part of the model.
detectProject(projectPath) ==
  LET listing == detectorReadDir(projectPath)
      projectIndicators == gatherIndicators(listing)
      detection == detectFramework(projectPath, projectIndicators)
      info == getBasicProjectInfo(projectPath, listing)
  IN  IF detection.threw
      THEN [type |-> "unknown",
            framework |-> [type |-> "unknown", confidence |-> 0, indicators |-> <<>>,
                           version |-> undefined],
            indicators |-> getEmptyIndicators,
            lastError |-> [type |-> "detection"]]
      ELSE [name |-> info.name,
            path |-> info.path,
            category |-> info.category,
            domain |-> info.domain,
            subdomain |-> info.subdomain,
            fileCount |-> info.fileCount,
            status |-> info.status,
            type |-> detection.framework.type,
            framework |-> detection.framework,
            indicators |-> projectIndicators,
            git |-> detectGitInfo(projectPath)]

\* The value of basicInfo before any getBasicProjectInfo call returned.
NoInfo ==
  [name |-> undefined, path |-> undefined, category |-> undefined, domain |-> undefined,
   subdomain |-> undefined, fileCount |-> 0, status |-> "none"]

\* The value of detected before any detectProject call returned.
NoDetection == [type |-> "none"]

\* The paths callers other than the scan sweep pass to the detector
\* (src/server.ts:152, 297): a path typed with backslashes, a path with an empty
\* segment, the category folder itself, a path outside the categories.
CallerPaths ==
  { <<"C",":","\\","d","e","v","\\","P","r","o","f","e","s","s","i","o","n","a","l","\\","y",".","i","o","\\","w","w","w">>,
    <<"/","p","d","e","/","p","e","r","s","o","n","a","l","/","/","a","p","i">>,
    <<"/","p","d","e","/","p","e","r","s","o","n","a","l">>,
    <<"/","s","r","v","/","m","i","s","c","/","t","o","o","l">> }

----------------------------------------------------------------------------
(* The environment: the content of the projects directory is drawn from the   *)
(* trees of at most MaxNodes nodes; while no traversal is running a directory *)
(* may become unlistable or listable and the root may be moved away or back   *)

\* The index of a node's parent directory, 0 for the root.
ParentOf(i) ==
  LET p == FsUniverse[i].path
      up == SubSeq(p, 1, Len(p) - 1)
      found == {j \in 1..Len(FsUniverse) : FsUniverse[j].path = up}
  IN  IF up = <<>> THEN 0 ELSE CHOOSE j \in found : TRUE

\* The trees the projects directory may hold: every node's parent is a
\* directory of the tree.
FsTrees(maxNodes) ==
  {t \in SUBSET (1..Len(FsUniverse)) :
     /\ Cardinality(t) <= maxNodes
     /\ \A i \in t : ParentOf(i) = 0 \/ ParentOf(i) \in t}

\* chmod: a directory stops or starts being listable; one directory at a time
\* is unlistable.
FsChmod(d) ==
  /\ pc = "idle"
  /\ rootKind = "dir"
  /\ d = 0 \/ (d \in tree /\ FsUniverse[d].isDirectory)
  /\ denied = {} \/ denied = {d}
  /\ denied' = IF d \in denied THEN {} ELSE {d}
  /\ fsChanged' = TRUE
  /\ UNCHANGED <<scannerVars, scanLocals, callerVars, rootKind, tree, detectorVars, serviceVars>>

\* The directory at projectsPath is moved away (nothing, or a file, is left at
\* the path) or moved back with its content.
FsReplaceRoot(kind) ==
  /\ pc = "idle"
  /\ denied = {}
  /\ kind # rootKind
  /\ rootKind' = kind
  /\ fsChanged' = TRUE
  /\ UNCHANGED <<scannerVars, scanLocals, callerVars, tree, denied, detectorVars, serviceVars>>

FsChange ==
  \/ \E d \in 0..Len(FsUniverse) : FsChmod(d)
  \/ \E kind \in {"dir", "file", "missing"} : FsReplaceRoot(kind)

----------------------------------------------------------------------------
(* Specifications *)

ScannerInit ==
  /\ scanInProgress = FALSE
  /\ lastScanTime = "null"
  /\ lastDiscoveredProjects = <<>>
  /\ pc = "idle"
  /\ result = newResult
  /\ projects = <<>>
  /\ categories = <<>>
  /\ categoryName = <<>>
  /\ categoryPath = <<>>
  /\ items = <<>>
  /\ elapsed = 0
  /\ readDirCalls = 0
  /\ returned = NoResult
  /\ thrown = "none"
  /\ callsDuringScan = 0
  /\ repeatedScan = FALSE
  /\ fsChanged = FALSE

\* No detector call has returned.
DetectorInit ==
  /\ basicInfo = NoInfo
  /\ detected = NoDetection

\* The value of domainLike and subdomainLike before the call returned.
NoAnswer == [called |-> FALSE, value |-> FALSE]

\* Neither classifier has been called on its own.
ClassifierInit ==
  /\ candidate = <<>>
  /\ domainLike = NoAnswer
  /\ subdomainLike = NoAnswer

\* The listeners that may register for file-system events.
Listeners == {"gui", "cache"}

\* The scanner was constructed: no watcher, no listener, no event so far.
WatcherInit ==
  /\ watcherActive = FALSE
  /\ eventCallbacks = <<>>
  /\ loops = <<>>
  /\ emitted = 0
  /\ notified = [e \in 1..MaxEvents, l \in Listeners |-> 0]
  /\ stopRequested = FALSE

\* The environment variables loadPDEConfig reads (src/unnamed/part_000:64-93).
NumericKeys == {"PDE_SCAN_INTERVAL", "PDE_BASE_PORT", "PDE_MAX_PROJECTS"}

OtherKeys ==
  {"PDE_PROJECTS_PATH", "PDE_AUTO_DETECT", "PDE_WATCH_CHANGES", "PDE_ENABLE_SUBDOMAINS",
   "PDE_DOMAIN", "PDE_METADATA_PATH", "PDE_BACKUP_INTERVAL", "PDE_MAX_BACKUPS", "PDE_THEME",
   "PDE_PLESK_STYLE", "PDE_DEFAULT_VIEW", "PDE_AUTO_REFRESH", "PDE_VALIDATE_PROJECTS",
   "PDE_SANITIZE_NAMES", "PDE_ALLOWED_TYPES"}

EnvKeys == NumericKeys \cup OtherKeys

\* The value of config before loadPDEConfig() returned.
NoConfig == [loaded |-> FALSE]

\* No variable is set and the configuration is not loaded.
ConfigInit ==
  /\ env = [k \in EnvKeys |-> undefined]
  /\ config = NoConfig

\* The ids of the projects given to the metadata store: the id the project
\* creation route derives for a subdomain project (src/server.ts:155-157), the
\* id the scan sweep derives for it (src/server.ts:231-233), and the id of a
\* project outside the domains (src/server.ts:240).
ProjectIds == {<<"a","p","i",".","x",".","c","o","m">>, <<"a","p","i">>, <<"p","e","r","s","o","n","a","l","-","t","o","o","l">>}

\* The value of getProject and getProjectByPath when there is no such project.
nullProject == [id |-> undefined]

\* this.metadata = null
nullMetadata == [initialised |-> FALSE]

\* The value of lastCall before any call.
NoCall == [op |-> "none"]

\* MetadataManager.createNewMetadata (src/core/types.ts:644-665); the scan
\* statistics, the versions and the timestamps are left out.
createNewMetadata ==
  [initialised |-> TRUE,
   totalProjects |-> 0,
   projects |-> <<>>,
   stats |-> [projectsByType |-> <<>>, projectsByCategory |-> <<>>, projectsByStatus |-> <<>>]]

\* A metadata manager was constructed: nothing is loaded, and there is no file.
StoreInit ==
  /\ metadata = nullMetadata
  /\ metadataFile = [exists |-> FALSE, content |-> createNewMetadata]
  /\ upserted = [id \in ProjectIds |-> nullProject]
  /\ lastCall = NoCall

\* The services beside the scanner and the detector, before they are used.
ServiceInit == ClassifierInit /\ WatcherInit /\ ConfigInit /\ StoreInit

\* A scanner was constructed for a projects directory that exists.
Init ==
  /\ ScannerInit
  /\ DetectorInit
  /\ ServiceInit
  /\ directory = NoDirectory
  /\ rootKind = "dir"
  /\ tree \in FsTrees(MaxNodes)
  /\ denied = {}

\* The steps of the scan in flight, which the event loop keeps taking.
ScanStep == CheckRoot \/ ReadRoot \/ NextCategory \/ NextItem

Next == ScanProjects \/ ScanStep \/ FsChange

Spec == Init /\ [][Next]_vars

\* The scanner over a file system that stays as it is, in any of its states.
FairInit ==
  /\ ScannerInit
  /\ DetectorInit
  /\ ServiceInit
  /\ directory = NoDirectory
  /\ rootKind \in {"dir", "file", "missing"}
  /\ tree \in FsTrees(MaxFairNodes)
  /\ denied \in {{}} \cup {{d} : d \in {0} \cup {i \in tree : FsUniverse[i].isDirectory}}
  /\ rootKind # "dir" => tree = {} /\ denied = {}

FairNext == ScanProjects \/ ScanStep

\* Every awaited file-system operation of a scan in flight completes: the
\* event loop resumes the scan as long as it has a step to take.
FairSpec == FairInit /\ [][FairNext]_vars /\ WF_vars(ScanStep)

\* getBasicProjectInfo(projectPath) returns, for a discovered location or a
\* path of another caller.
GetBasicProjectInfo ==
  /\ \E projectPath \in {lastDiscoveredProjects[k].path : k \in 1..Len(lastDiscoveredProjects)} \cup CallerPaths :
       basicInfo' = getBasicProjectInfo(projectPath, readDir(projectPath))
  /\ UNCHANGED <<scannerVars, scanLocals, callerVars, fsVars, directory, detected, serviceVars>>

\* The paths detectProject is called for.
DetectPaths == CallerPaths \cup {<<"/","p","d","e","/","p","e","r","s","o","n","a","l","/","x",".","c","o","m","/","a","p","i">>}

\* detectProject(projectPath) returns.
DetectProject ==
  /\ \E projectPath \in DetectPaths :
       detected' = detectProject(projectPath)
  /\ UNCHANGED <<scannerVars, scanLocals, callerVars, fsVars, directory, basicInfo, serviceVars>>

\* The scanner over a file system that stays as it is, and the labels the
\* detector derives for the paths it is given.
LabelInit ==
  /\ ScannerInit
  /\ DetectorInit
  /\ ServiceInit
  /\ directory = NoDirectory
  /\ rootKind = "dir"
  /\ tree \in FsTrees(MaxLabelNodes)
  /\ denied = {}

LabelNext == ScanProjects \/ ScanStep \/ GetBasicProjectInfo

LabelSpec == LabelInit /\ [][LabelNext]_vars

\* The parts the names given to the classifiers are made of.
LabelPool ==
  <<<<>>, <<"a","p","i">>, <<"s","t","a","t","i","c">>, <<"d","o","c","s">>, <<"t","e","s","t">>, <<"a","r","t","i","c","l","e">>, <<"b","l","o","g">>, <<"e","x","a","m","p","l","e">>, <<"c","o","m">>, <<"C","O","M">>, <<"g","i","t">>>>

\* The parts joined by dots.
RECURSIVE dotted(_)
dotted(parts) ==
  IF Len(parts) = 1 THEN parts[1]
  ELSE parts[1] \o <<".">> \o dotted(Tail(parts))

\* The names given to the classifiers: at most MaxLabels parts of the pool,
\* joined by dots, the empty name left out.
Names ==
  {dotted(parts) : parts \in UNION {[1..n -> {LabelPool[i] : i \in 1..Len(LabelPool)}] : n \in 1..MaxLabels}}
    \ {<<>>}

\* isDomainLike(candidate) returns.
IsDomainLike ==
  /\ domainLike' = [called |-> TRUE, value |-> isDomainLike(candidate)]
  /\ UNCHANGED <<scannerVars, scanLocals, callerVars, fsVars, detectorVars, candidate, subdomainLike,
                 watcherVars, configVars, storeVars>>

\* isSubdomainLike(candidate) returns.
IsSubdomainLike ==
  /\ subdomainLike' = [called |-> TRUE, value |-> isSubdomainLike(candidate)]
  /\ UNCHANGED <<scannerVars, scanLocals, callerVars, fsVars, detectorVars, candidate, domainLike,
                 watcherVars, configVars, storeVars>>

\* The classifiers alone, called with any of the names.
ClassifyInit ==
  /\ ScannerInit
  /\ DetectorInit
  /\ directory = NoDirectory
  /\ rootKind = "dir"
  /\ tree = {}
  /\ denied = {}
  /\ candidate \in Names
  /\ domainLike = NoAnswer
  /\ subdomainLike = NoAnswer
  /\ WatcherInit
  /\ ConfigInit
  /\ StoreInit

ClassifyNext == IsDomainLike \/ IsSubdomainLike

ClassifySpec == ClassifyInit /\ [][ClassifyNext]_vars

\* ProjectScanner.startWatching (src/core/types.ts:1818-1847) up to its first
\* await: it returns at once when the watcher is active; otherwise it sets the
\* flag and creates a Deno.watchFs watcher, which receives the events that occur
\* from now on, and waits for the first of them. Deno.watchFs throws for a
\* path that does not exist; the catch block clears the flag.
StartWatching ==
  /\ stopRequested' = FALSE
  /\ IF watcherActive
     THEN UNCHANGED <<watcherActive, loops>>
     ELSE IF rootKind = "missing"
     THEN UNCHANGED <<watcherActive, loops>>
     ELSE /\ Len(loops) < MaxLoops
          /\ watcherActive' = TRUE
          /\ loops' = Append(loops, [pc |-> "waiting", next |-> emitted + 1, event |-> 0, handled |-> {}])
  /\ UNCHANGED <<scannerVars, scanLocals, callerVars, fsVars, detectorVars, classifierVars, configVars, storeVars,
                 eventCallbacks, emitted, notified>>

\* ProjectScanner.stopWatching (src/core/types.ts:1852-1857)
StopWatching ==
  /\ watcherActive' = FALSE
  /\ stopRequested' = TRUE
  /\ UNCHANGED <<scannerVars, scanLocals, callerVars, fsVars, detectorVars, classifierVars, configVars, storeVars,
                 eventCallbacks, loops, emitted, notified>>

\* ProjectScanner.onFileSystemEvent (src/core/types.ts:1862-1864), called by a
\* listener that is not registered yet.
OnFileSystemEvent ==
  /\ \E l \in Listeners \ {eventCallbacks[k] : k \in 1..Len(eventCallbacks)} :
       eventCallbacks' = Append(eventCallbacks, l)
  /\ UNCHANGED <<scannerVars, scanLocals, callerVars, fsVars, detectorVars, classifierVars, configVars, storeVars,
                 watcherActive, loops, emitted, notified, stopRequested>>

\* Something changes beneath projectsPath: every watcher gets the event.
FsEvent ==
  /\ rootKind # "missing"
  /\ emitted < MaxEvents
  /\ emitted' = emitted + 1
  /\ UNCHANGED <<scannerVars, scanLocals, callerVars, fsVars, detectorVars, classifierVars, configVars, storeVars,
                 watcherActive, eventCallbacks, loops, notified, stopRequested>>

\* The for await of a loop yields the next event of its watcher
\* (src/core/types.ts:1830-1838): the loop ends when the flag is off, otherwise
\* it awaits isDirectory for the event.
LoopReceive(i) ==
  /\ loops[i].pc = "waiting"
  /\ loops[i].next <= emitted
  /\ loops' = [loops EXCEPT ![i] =
       IF watcherActive
       THEN [pc |-> "classifying", next |-> @.next + 1, event |-> @.next,
             handled |-> @.handled \cup {@.next}]
       ELSE [pc |-> "done", next |-> @.next + 1, event |-> 0, handled |-> @.handled]]
  /\ UNCHANGED <<scannerVars, scanLocals, callerVars, fsVars, detectorVars, classifierVars, configVars, storeVars,
                 watcherActive, eventCallbacks, emitted, notified, stopRequested>>

\* ProjectScanner.notifyEventCallbacks (src/core/types.ts:1935-1943): every
\* registered callback is called with the event once.
notifyEventCallbacks(event) ==
  [e \in 1..MaxEvents, l \in Listeners |->
     IF e = event /\ \E k \in 1..Len(eventCallbacks) : eventCallbacks[k] = l
     THEN notified[e, l] + 1
     ELSE notified[e, l]]

\* isDirectory has answered (src/core/types.ts:1836-1842): the loop notifies
\* the listeners and waits for the next event.
LoopNotify(i) ==
  /\ loops[i].pc = "classifying"
  /\ notified' = notifyEventCallbacks(loops[i].event)
  /\ loops' = [loops EXCEPT ![i].pc = "waiting", ![i].event = 0]
  /\ UNCHANGED <<scannerVars, scanLocals, callerVars, fsVars, detectorVars, classifierVars, configVars, storeVars,
                 watcherActive, eventCallbacks, emitted, stopRequested>>

\* The steps of the watch loops, which the event loop takes.
LoopStep == \E i \in 1..Len(loops) : LoopReceive(i) \/ LoopNotify(i)

\* The watcher alone, over a projects directory that exists or is missing.
WatchInit ==
  /\ ScannerInit
  /\ DetectorInit
  /\ ClassifierInit
  /\ WatcherInit
  /\ ConfigInit
  /\ StoreInit
  /\ directory = NoDirectory
  /\ rootKind \in {"dir", "missing"}
  /\ tree = {}
  /\ denied = {}

WatchNext == StartWatching \/ StopWatching \/ OnFileSystemEvent \/ FsEvent \/ LoopStep

WatchSpec == WatchInit /\ [][WatchNext]_vars

\* A JavaScript number: an integer or NaN.
NaN == [isNaN |-> TRUE, value |-> 0]
number(n) == [isNaN |-> FALSE, value |-> n]

\* a < n and a > n for a number a and an integer n: false when a is NaN.
lessThan(a, n) == ~a.isNaN /\ a.value < n
greaterThan(a, n) == ~a.isNaN /\ a.value > n

\* The digits of radix 16, in the order of their values.
HexDigits == <<"0","1","2","3","4","5","6","7","8","9","a","b","c","d","e","f">>

\* The character is a digit of the radix.
isDigit(c, radix) ==
  \E i \in 1..radix : HexDigits[i] = toLowerCase(<<c>>)[1]

digitValue(c) ==
  (CHOOSE i \in 1..16 : HexDigits[i] = toLowerCase(<<c>>)[1]) - 1

\* The value of the longest prefix of digits, after the value acc of the digits
\* read so far; -1 when there is no digit at all.
RECURSIVE digitsValue(_, _, _, _)
digitsValue(text, radix, acc, any) ==
  IF text # <<>> /\ isDigit(Head(text), radix)
  THEN digitsValue(Tail(text), radix, acc * radix + digitValue(Head(text)), TRUE)
  ELSE IF any THEN acc ELSE -1

\* The text without its leading white space.
RECURSIVE trimStart(_)
trimStart(text) ==
  IF text # <<>> /\ Head(text) = " " THEN trimStart(Tail(text)) ELSE text

\* parseInt(text) without a radix: leading white space and a sign are skipped,
\* a prefix 0x selects radix 16, the digits up to the first other character are
\* read, and the result is NaN when no digit was read.
parseInt(text) ==
  LET trimmed == trimStart(text)
      signed == trimmed # <<>> /\ Head(trimmed) \in {"+", "-"}
      negative == signed /\ Head(trimmed) = "-"
      unsigned == IF signed THEN Tail(trimmed) ELSE trimmed
      hex == startsWith(toLowerCase(unsigned), <<"0","x">>)
      body == IF hex THEN SubSeq(unsigned, 3, Len(unsigned)) ELSE unsigned
      magnitude == digitsValue(body, IF hex THEN 16 ELSE 10, 0, FALSE)
  IN  IF magnitude = -1 THEN NaN
      ELSE number(IF negative THEN 0 - magnitude ELSE magnitude)

\* Deno.env.get(key) || fallback
getOr(key, fallback) ==
  IF env[key] = undefined \/ env[key] = <<>> THEN fallback ELSE env[key]

\* Deno.env.get(key) !== 'false'
notFalse(key) == env[key] # <<"f","a","l","s","e">>

\* validatePDEConfig (src/unnamed/part_000:103-123)
validatePDEConfig(c) ==
  LET basePort ==
        IF lessThan(c.server.basePort, 1000) \/ greaterThan(c.server.basePort, 65535)
        THEN number(3000) ELSE c.server.basePort
      scanInterval ==
        IF lessThan(c.projects.scanInterval, 1000)
        THEN number(5000) ELSE c.projects.scanInterval
      maxConcurrentProjects ==
        IF \/ lessThan(c.server.maxConcurrentProjects, 1)
           \/ greaterThan(c.server.maxConcurrentProjects, 50)
        THEN number(10) ELSE c.server.maxConcurrentProjects
  IN  [c EXCEPT !.server.basePort = basePort,
                !.projects.scanInterval = scanInterval,
                !.server.maxConcurrentProjects = maxConcurrentProjects]

\* loadPDEConfig (src/unnamed/part_000:61-98)
loadPDEConfig ==
  validatePDEConfig(
    [loaded |-> TRUE,
     projects |-> [rootPath |-> getOr("PDE_PROJECTS_PATH", <<".","/","p","r","o","j","e","c","t","s">>),
                   scanInterval |-> parseInt(getOr("PDE_SCAN_INTERVAL", <<"5","0","0","0">>)),
                   autoDetect |-> notFalse("PDE_AUTO_DETECT"),
                   watchForChanges |-> notFalse("PDE_WATCH_CHANGES")],
     server |-> [basePort |-> parseInt(getOr("PDE_BASE_PORT", <<"3","0","0","0">>)),
                 maxConcurrentProjects |-> parseInt(getOr("PDE_MAX_PROJECTS", <<"1","0">>)),
                 enableSubdomains |-> notFalse("PDE_ENABLE_SUBDOMAINS"),
                 domain |-> getOr("PDE_DOMAIN", <<"l","o","c","a","l","h","o","s","t">>)],
     storage |-> [metadataPath |-> getOr("PDE_METADATA_PATH", <<".","/","m","e","t","a","d","a","t","a","/","p","d","e","-","m","e","t","a","d","a","t","a",".","j","s","o","n">>),
                  backupInterval |-> parseInt(getOr("PDE_BACKUP_INTERVAL", <<"3","0","0","0","0","0">>)),
                  maxBackups |-> parseInt(getOr("PDE_MAX_BACKUPS", <<"5">>))],
     gui |-> [theme |-> getOr("PDE_THEME", <<"s","y","s","t","e","m">>),
              pleskStyle |-> notFalse("PDE_PLESK_STYLE"),
              defaultView |-> getOr("PDE_DEFAULT_VIEW", <<"g","r","i","d">>),
              autoRefresh |-> notFalse("PDE_AUTO_REFRESH")],
     security |-> [validateProjects |-> notFalse("PDE_VALIDATE_PROJECTS"),
                   sanitizeNames |-> notFalse("PDE_SANITIZE_NAMES"),
                   allowedFileTypes |->
                     split(getOr("PDE_ALLOWED_TYPES",
                                 <<".","t","s",",",".","j","s",",",".","j","s","x",",",".","t","s","x",",",".","j","s","o","n",",",".","m","d",",",".","h","t","m","l",",",".","c","s","s",",",".","s","c","s","s",",",".","l","e","s","s",",",".","v","u","e",",",".","s","v","e","l","t","e">>), ",")]])

\* loadPDEConfig() returns.
LoadPDEConfig ==
  /\ config' = loadPDEConfig
  /\ UNCHANGED <<scannerVars, scanLocals, callerVars, fsVars, detectorVars, classifierVars,
                 watcherVars, storeVars, env>>

\* The values the three validated variables are set to: empty, no number,
\* numbers at and beside the limits of the ranges, a negative number after a
\* blank and before text, a hexadecimal number.
NumericValues ==
  {<<>>, <<"a","b","c">>, <<"5","0">>, <<"9","9","9">>, <<"1","0","0","0">>, <<"6","5","5","3","5">>, <<"6","5","5","3","6">>, <<" ","-","5","x">>, <<"0","x","7","D","0">>}

\* The value each other variable is set to when it is set.
OtherValue ==
  [k \in OtherKeys |->
     CASE k = "PDE_PROJECTS_PATH" -> <<"/","p","d","e">>
       [] k = "PDE_DOMAIN" -> <<"p","d","e",".","t","e","s","t">>
       [] k = "PDE_METADATA_PATH" -> <<"/","p","d","e","/","m","e","t","a",".","j","s","o","n">>
       [] k = "PDE_BACKUP_INTERVAL" -> <<"6","0","0","0","0">>
       [] k = "PDE_MAX_BACKUPS" -> <<"m","a","n","y">>
       [] k = "PDE_THEME" -> <<"d","a","r","k">>
       [] k = "PDE_DEFAULT_VIEW" -> <<"l","i","s","t">>
       [] k = "PDE_ALLOWED_TYPES" -> <<".","t","s",",",".","m","d">>
       [] OTHER -> <<"f","a","l","s","e">>]

\* The environment with the variables of this set set, the numeric ones to
\* the values f gives them.
Environment(set, f) ==
  [k \in EnvKeys |->
     IF k \in set \cap NumericKeys THEN f[k]
     ELSE IF k \in set THEN OtherValue[k]
     ELSE undefined]

\* The configuration loader alone, in any environment with at most MaxSet
\* variables set.
ConfigSpecInit ==
  /\ ScannerInit
  /\ DetectorInit
  /\ ClassifierInit
  /\ WatcherInit
  /\ StoreInit
  /\ directory = NoDirectory
  /\ rootKind = "dir"
  /\ tree = {}
  /\ denied = {}
  /\ \E set \in {s \in SUBSET EnvKeys : Cardinality(s) <= MaxSet} :
       \E f \in [set \cap NumericKeys -> NumericValues] :
         env = Environment(set, f)
  /\ config = NoConfig

ConfigNext == LoadPDEConfig

ConfigSpec == ConfigSpecInit /\ [][ConfigNext]_vars

\* The ProjectInfo records given to addOrUpdateProject: the subdomain project
\* under either id, its path also as typed with backslashes, and the project
\* outside the domains; each as a react project under development or as an
\* unknown one that is proposed. The timestamps and the fields the claims do
\* not read are left out.
ProjectInfos ==
  {[id |-> where.id,
    name |-> where.name,
    type |-> kind.type,
    status |-> kind.status,
    category |-> <<"p","e","r","s","o","n","a","l">>,
    path |-> where.path] :
     where \in {[id |-> <<"a","p","i",".","x",".","c","o","m">>, name |-> <<"a","p","i">>, path |-> <<"/","p","d","e","/","p","e","r","s","o","n","a","l","/","x",".","c","o","m","/","a","p","i">>],
                [id |-> <<"a","p","i">>, name |-> <<"a","p","i">>, path |-> <<"/","p","d","e","/","p","e","r","s","o","n","a","l","/","x",".","c","o","m","/","a","p","i">>],
                [id |-> <<"a","p","i">>, name |-> <<"a","p","i">>, path |-> <<"\\","p","d","e","\\","p","e","r","s","o","n","a","l","\\","x",".","c","o","m","\\","a","p","i">>],
                [id |-> <<"p","e","r","s","o","n","a","l","-","t","o","o","l">>, name |-> <<"t","o","o","l">>, path |-> <<"/","p","d","e","/","p","e","r","s","o","n","a","l","/","t","o","o","l">>]},
     kind \in {[type |-> "react", status |-> "development"],
               [type |-> "unknown", status |-> "proposed"]}}

\* The position of the project with this id in metadata.projects, whose keys
\* are in the order of their insertion; 0 when there is none.
projectIndex(stored, id) ==
  IF \E k \in 1..Len(stored) : stored[k].id = id
  THEN CHOOSE k \in 1..Len(stored) : stored[k].id = id
  ELSE 0

\* MetadataManager.initialize (src/core/types.ts:312-323): the metadata of the
\* file, or new metadata when the file cannot be loaded.
initialize ==
  IF metadataFile.exists THEN metadataFile.content ELSE createNewMetadata

\* this.metadata after the initialize() call of a method that found it null.
initialised == IF metadata.initialised THEN metadata ELSE initialize

\* stats[key] = (stats[key] || 0) + delta
bump(counters, key, delta) ==
  [k \in DOMAIN counters \cup {key} |->
     (IF k \in DOMAIN counters THEN counters[k] ELSE 0) + (IF k = key THEN delta ELSE 0)]

\* The keys whose count is not above 0 are deleted (src/core/types.ts:727-731).
cleanUp(counters) ==
  [k \in {key \in DOMAIN counters : counters[key] > 0} |-> counters[k]]

\* MetadataManager.updateStats (src/core/types.ts:708-732): delta is 1 for
\* 'add', -1 for 'remove' and 0 for 'update'.
updateStats(stats, project, delta) ==
  [projectsByType |-> cleanUp(bump(stats.projectsByType, project.type, delta)),
   projectsByCategory |-> bump(stats.projectsByCategory, project.category, delta),
   projectsByStatus |-> bump(stats.projectsByStatus, project.status, delta)]

\* addOrUpdateProject without the totalProjects++ of a new project.
addOrUpdateProjectKeepingTotal(current, projectInfo) ==
  LET index == projectIndex(current.projects, projectInfo.id)
      isNew == index = 0
  IN  [initialised |-> TRUE,
       totalProjects |-> current.totalProjects,
       projects |-> IF isNew THEN Append(current.projects, projectInfo)
                    ELSE [current.projects EXCEPT ![index] = projectInfo],
       stats |-> updateStats(current.stats, projectInfo, IF isNew THEN 1 ELSE 0)]

\* MetadataManager.addOrUpdateProject (src/core/types.ts:376-401) on the
\* metadata it finds or initialises: the record replaces the one of its id in
\* place or is added after the others.
addOrUpdateProject(current, projectInfo) ==
  LET index == projectIndex(current.projects, projectInfo.id)
      isNew == index = 0
  IN  [initialised |-> TRUE,
       totalProjects |-> IF isNew THEN current.totalProjects + 1 ELSE current.totalProjects,
       projects |-> IF isNew THEN Append(current.projects, projectInfo)
                    ELSE [current.projects EXCEPT ![index] = projectInfo],
       stats |-> updateStats(current.stats, projectInfo, IF isNew THEN 1 ELSE 0)]

\* MetadataManager.removeProject (src/core/types.ts:406-423) on the metadata it
\* finds or initialises: what it returns and the metadata it leaves.
removeProject(current, projectId) ==
  LET index == projectIndex(current.projects, projectId) IN
  IF index = 0
  THEN [returned |-> FALSE, metadata |-> current]
  ELSE [returned |-> TRUE,
        metadata |->
          [initialised |-> TRUE,
           totalProjects |-> current.totalProjects - 1,
           projects |-> SubSeq(current.projects, 1, index - 1)
                          \o SubSeq(current.projects, index + 1, Len(current.projects)),
           stats |-> updateStats(current.stats, current.projects[index], -1)]]

\* What the file holds after a method that saves only when it changed
\* something: initialize() has written the file when there was none.
saved(changed) ==
  IF changed THEN [exists |-> TRUE, content |-> metadata']
  ELSE IF metadata.initialised THEN metadataFile
  ELSE [exists |-> TRUE, content |-> initialize]

\* MetadataManager.getProject (src/core/types.ts:438-443)
getProject(projectId) ==
  IF ~metadata.initialised THEN nullProject
  ELSE IF projectIndex(metadata.projects, projectId) = 0 THEN nullProject
  ELSE metadata.projects[projectIndex(metadata.projects, projectId)]

\* MetadataManager.getProjectByPath (src/core/types.ts:448-464): the first
\* project whose path is the given one, backslashes taken as slashes.
projectByPath(stored, projectPath) ==
  LET normalizedPath == replaceBackslashes(projectPath)
      matches == {k \in 1..Len(stored) : replaceBackslashes(stored[k].path) = normalizedPath}
  IN  IF matches = {} THEN nullProject
      ELSE stored[CHOOSE k \in matches : \A j \in matches : k <= j]

\* getProjectByPath on the metadata as it is: null when nothing is loaded.
getProjectByPath(projectPath) ==
  IF ~metadata.initialised THEN nullProject
  ELSE projectByPath(metadata.projects, projectPath)

\* The count of a key, a missing key counting as 0.
countOf(counters, key) == IF key \in DOMAIN counters THEN counters[key] ELSE 0

\* MetadataManager.initialize() called by the server (src/server.ts:43); the
\* file is written when it was not there.
Initialize ==
  /\ ~metadata.initialised
  /\ metadata' = initialize
  /\ metadataFile' = [exists |-> TRUE, content |-> initialize]
  /\ UNCHANGED <<scannerVars, scanLocals, callerVars, fsVars, detectorVars, classifierVars,
                 watcherVars, configVars, upserted, lastCall>>

\* addOrUpdateProject(projectInfo) returns: the metadata is changed and saved.
\* The store holds at most MaxStored projects and no counter exceeds
\* MaxCounter.
AddOrUpdateProject ==
  \E projectInfo \in ProjectInfos :
    /\ projectIndex(initialised.projects, projectInfo.id) = 0 =>
         /\ Len(initialised.projects) < MaxStored
         /\ countOf(initialised.stats.projectsByType, projectInfo.type) < MaxCounter
         /\ countOf(initialised.stats.projectsByStatus, projectInfo.status) < MaxCounter
    /\ metadata' = addOrUpdateProject(initialised, projectInfo)
    /\ metadataFile' = saved(TRUE)
    /\ upserted' = [upserted EXCEPT ![projectInfo.id] = projectInfo]
    /\ lastCall' = [op |-> "addOrUpdateProject", id |-> projectInfo.id]
    /\ UNCHANGED <<scannerVars, scanLocals, callerVars, fsVars, detectorVars, classifierVars,
                   watcherVars, configVars>>

\* The records of the first list that the second does not hold.
removedFrom(before, after) ==
  {before[k] : k \in 1..Len(before)} \ {after[k] : k \in 1..Len(after)}

\* removeProject(projectId) returns. No counter falls below -MaxCounter.
RemoveProject ==
  \E projectId \in ProjectIds :
    LET outcome == removeProject(initialised, projectId) IN
    /\ \A key \in DOMAIN outcome.metadata.stats.projectsByStatus :
         outcome.metadata.stats.projectsByStatus[key] >= 0 - MaxCounter
    /\ metadata' = outcome.metadata
    /\ metadataFile' = saved(outcome.returned)
    /\ upserted' = [upserted EXCEPT ![projectId] = nullProject]
    /\ lastCall' = [op |-> "removeProject", id |-> projectId, returned |-> outcome.returned]
    /\ UNCHANGED <<scannerVars, scanLocals, callerVars, fsVars, detectorVars, classifierVars,
                   watcherVars, configVars>>

\* The ids a DELETE /api/projects/{id} request names: the ids, the names, a
\* category-name composite, and the name of a category and of a domain.
RequestIds ==
  ProjectIds \cup {<<"t","o","o","l">>, <<"p","e","r","s","o","n","a","l","-","a","p","i">>, <<"p","e","r","s","o","n","a","l">>, <<"x",".","c","o","m">>, <<"g","o","n","e">>}

\* The fallback search of the DELETE route (src/server.ts:318-323): the
\* positions of the projects it accepts for the id of the request.
fallbackMatches(stored, projectId) ==
  {k \in 1..Len(stored) :
     \/ stored[k].name = projectId
     \/ stored[k].id = <<"u","n","d","e","f","i","n","e","d">>
     \/ includes(stored[k].path, projectId)
     \/ stored[k].category \o <<"-">> \o stored[k].name = projectId}

\* DELETE /api/projects/{id} (src/server.ts:305-347): removeProject(id), and
\* when that returns false, removeProject for the first project the fallback
\* search finds.
deleteProject(current, projectId) ==
  LET direct == removeProject(current, projectId)
      found == fallbackMatches(current.projects, projectId)
      projectToDelete == current.projects[CHOOSE k \in found : \A j \in found : k <= j]
  IN  IF direct.returned THEN direct
      ELSE IF found = {} THEN direct
      ELSE removeProject(current, projectToDelete.id)

\* The DELETE route answers.
DeleteProject ==
  \E projectId \in RequestIds :
    LET outcome == deleteProject(initialised, projectId)
        removed == removedFrom(initialised.projects, outcome.metadata.projects)
    IN  /\ \A key \in DOMAIN outcome.metadata.stats.projectsByStatus :
             outcome.metadata.stats.projectsByStatus[key] >= 0 - MaxCounter
        /\ metadata' = outcome.metadata
        /\ metadataFile' = saved(outcome.returned)
        /\ upserted' = [id \in ProjectIds |->
                          IF \E r \in removed : r.id = id THEN nullProject ELSE upserted[id]]
        /\ lastCall' = [op |-> "DELETE", id |-> projectId, removed |-> removed]
        /\ UNCHANGED <<scannerVars, scanLocals, callerVars, fsVars, detectorVars, classifierVars,
                       watcherVars, configVars>>

\* A value JavaScript takes as true in a condition: neither undefined nor ''.
truthy(value) == value # undefined /\ value # <<>>

\* POST /api/scan: the id given to a project the detector returned without
\* one (src/server.ts:227-243).
sweepId(projectInfo, discoveredProject) ==
  LET parts == split(discoveredProject.path, "/")
      projectName == IF truthy(projectInfo.name) THEN projectInfo.name
                     ELSE IF truthy(parts[Len(parts)]) THEN parts[Len(parts)]
                     ELSE <<"u","n","k","n","o","w","n">>
      category == IF truthy(projectInfo.category) THEN projectInfo.category ELSE <<"u","n","k","n","o","w","n">>
  IN  IF truthy(projectInfo.subdomain) THEN projectInfo.subdomain
      ELSE IF truthy(projectInfo.domain) THEN projectInfo.domain
      ELSE category \o <<"-">> \o projectName

\* POST /api/scan: one pass of the loop over the discovered projects
\* (src/server.ts:218-264). The detector derives name, path, category, domain,
\* subdomain and status from the path and the listing of the directory; type
\* is the type it detects from the content of the directory, which is an
\* input here. The sweep counts the project as updated when a record with its
\* path is stored, and as added otherwise.
processProject(sweep, discoveredProject, type) ==
  LET info == getBasicProjectInfo(discoveredProject.path, readDir(discoveredProject.path))
      projectInfo == [id |-> sweepId(info, discoveredProject),
                      name |-> info.name,
                      type |-> type,
                      status |-> info.status,
                      category |-> info.category,
                      path |-> info.path]
      existingProject == projectByPath(sweep.metadata.projects, projectInfo.path)
  IN  [metadata |-> addOrUpdateProject(sweep.metadata, projectInfo),
       projectsAdded |-> sweep.projectsAdded + (IF existingProject = nullProject THEN 1 ELSE 0),
       projectsUpdated |-> sweep.projectsUpdated + (IF existingProject = nullProject THEN 0 ELSE 1)]

\* for (const discoveredProject of discoveredProjects), from the k-th on.
RECURSIVE processProjects(_, _, _, _)
processProjects(sweep, discoveredProjects, types, k) ==
  IF k > Len(discoveredProjects) THEN sweep
  ELSE processProjects(processProject(sweep, discoveredProjects[k], types[k]),
                       discoveredProjects, types, k + 1)

\* The types the detector reports for the discovered directories.
SweepTypes == {"react", "unknown"}

\* POST /api/scan: what the loop over the discovered projects leaves when the
\* scan succeeded and found some (src/server.ts:209-217), and what is there
\* otherwise.
sweepOutcome(types) ==
  IF returned.success /\ returned.projectsFound > 0
  THEN [swept |-> TRUE] @@
       processProjects([metadata |-> initialised, projectsAdded |-> 0, projectsUpdated |-> 0],
                       lastDiscoveredProjects, types, 1)
  ELSE [swept |-> FALSE, metadata |-> initialised, projectsAdded |-> returned.projectsAdded,
        projectsUpdated |-> returned.projectsUpdated]

\* The record each id has last been given to the store, after a sweep.
upsertedAfter(sweep) ==
  LET stored == sweep.metadata.projects
      ids == {stored[k].id : k \in 1..Len(stored)}
  IN  [id \in DOMAIN upserted \cup ids |->
         IF sweep.swept /\ projectIndex(stored, id) # 0
         THEN stored[projectIndex(stored, id)]
         ELSE upserted[id]]

\* POST /api/scan (src/server.ts:203-283) once scanner.scanProjects() has
\* returned: the discovered projects are given to the store when the scan
\* succeeded and found some, and updateScanResults loads and saves the
\* metadata in either case.
SweepProjects ==
  /\ pc = "idle"
  /\ returned # NoResult
  /\ thrown = "none"
  /\ \E types \in [1..Len(lastDiscoveredProjects) -> SweepTypes] :
       \E sweep \in {sweepOutcome(types)} :
         /\ metadata' = sweep.metadata
         /\ metadataFile' = [exists |-> TRUE, content |-> sweep.metadata]
         /\ returned' = [returned EXCEPT !.projectsAdded = sweep.projectsAdded,
                                         !.projectsUpdated = sweep.projectsUpdated]
         /\ upserted' = upsertedAfter(sweep)
         /\ lastCall' = [op |-> "POST /api/scan",
                         discovered |-> IF sweep.swept THEN lastDiscoveredProjects ELSE <<>>]
  /\ UNCHANGED <<scannerVars, scanLocals, thrown, callsDuringScan, repeatedScan, fsVars,
                 detectorVars, classifierVars, watcherVars, configVars>>

\* The scanner over a file system that stays as it is, and the server's scan
\* route giving what was discovered to a store that is new.
SweepInit ==
  /\ ScannerInit
  /\ DetectorInit
  /\ ServiceInit
  /\ directory = NoDirectory
  /\ rootKind = "dir"
  /\ tree \in FsTrees(MaxSweepNodes)
  /\ denied = {}

SweepNext == ScanProjects \/ ScanStep \/ SweepProjects

SweepSpec == SweepInit /\ [][SweepNext]_vars

\* The metadata store alone; the file of an earlier run may hold a project.
StoreSpecInit ==
  /\ ScannerInit
  /\ DetectorInit
  /\ ClassifierInit
  /\ WatcherInit
  /\ ConfigInit
  /\ directory = NoDirectory
  /\ rootKind = "dir"
  /\ tree = {}
  /\ denied = {}
  /\ metadata = nullMetadata
  /\ metadataFile \in {[exists |-> FALSE, content |-> createNewMetadata]}
                        \cup {[exists |-> TRUE, content |-> addOrUpdateProject(createNewMetadata, p)] :
                                p \in ProjectInfos}
  /\ upserted = [id \in ProjectIds |-> nullProject]
  /\ lastCall = NoCall

StoreNext == Initialize \/ AddOrUpdateProject \/ RemoveProject \/ DeleteProject

StoreSpec == StoreSpecInit /\ [][StoreNext]_vars

\* The detector alone, pointed to any of the directories.
DetectInit ==
  /\ ScannerInit
  /\ DetectorInit
  /\ ServiceInit
  /\ directory \in Directories
  /\ rootKind = "dir"
  /\ tree = {}
  /\ denied = {}

DetectNext == DetectProject

DetectSpec == DetectInit /\ [][DetectNext]_vars

----------------------------------------------------------------------------
(* What the file system holds, stated from the tree itself *)

RECURSIVE joinAll(_, _)
joinAll(base, names) ==
  IF names = <<>> THEN base ELSE joinAll(joinPath(base, Head(names)), Tail(names))

\* The absolute path of node i.
AbsPath(i) == joinAll(projectsPath, FsUniverse[i].path)

NameOf(i) == FsUniverse[i].path[Len(FsUniverse[i].path)]

IsDir(i) == FsUniverse[i].isDirectory

Children(i) == {j \in tree : ParentOf(j) = i}

PathSet(list) == {list[k].path : k \in 1..Len(list)}

LocationsAt(list, path) == {k \in 1..Len(list) : list[k].path = path}

CategoryNames == {<<"p","e","r","s","o","n","a","l">>,
                  <<"p","r","o","f","e","s","s","i","o","n","a","l">>}

\* The level-1 folders named personal or professional, in any letter case.
CategoryFolders ==
  {c \in Children(0) : IsDir(c) /\ toLowerCase(NameOf(c)) \in CategoryNames}

\* The level-2 folders of a category.
Level2Folders == {i \in tree : IsDir(i) /\ ParentOf(i) \in CategoryFolders}

DomainFolders == {i \in Level2Folders : isDomainLike(NameOf(i))}

ContainerFolders ==
  {i \in Level2Folders : ~isDomainLike(NameOf(i)) /\ ~looksLikeProjectFolder(NameOf(i))}

HasIndicator(j) ==
  j \notin denied /\ \E f \in Children(j) : toLowerCase(NameOf(f)) \in indicators

\* The locations a traversal finds in the directories that can be listed.
ReadableLocations ==
  {AbsPath(i) : i \in {d \in DomainFolders : ParentOf(d) \notin denied}}
  \cup
  {AbsPath(j) : j \in {c \in tree :
      /\ IsDir(c)
      /\ ParentOf(c) \in DomainFolders
      /\ ParentOf(c) \notin denied
      /\ ParentOf(ParentOf(c)) \notin denied
      /\ isSubdomainLike(NameOf(c))}}
  \cup
  {AbsPath(j) : j \in {c \in tree :
      /\ IsDir(c)
      /\ ParentOf(c) \in ContainerFolders
      /\ ParentOf(c) \notin denied
      /\ ParentOf(ParentOf(c)) \notin denied
      /\ HasIndicator(c)}}

\* A scan has returned and the file system is still as that scan saw it.
ScanReturned == pc = "idle" /\ returned # NoResult /\ ~fsChanged

\* The step on which a scanProjects() call returns its result.
ScanReturns == pc # "idle" /\ pc' = "idle"

----------------------------------------------------------------------------
(* Claims *)

\* C1: a scanProjects() call issued while a scan is in flight throws 'Scan
\* already in progress' and changes neither the in-progress flag, nor the stored
\* list, nor the traversal in flight (no second traversal starts); the list the
\* first call stores when it finishes holds each discovered location exactly once.
C1_SecondCallRejected ==
  /\ [][callsDuringScan' > callsDuringScan =>
          /\ thrown' = "Scan already in progress"
          /\ UNCHANGED <<scannerVars, scanLocals>>]_vars
  /\ [][(ScanReturns /\ returned'.success) =>
          /\ PathSet(lastDiscoveredProjects') = ReadableLocations
          /\ \A path \in ReadableLocations :
               Cardinality(LocationsAt(lastDiscoveredProjects', path)) = 1]_vars

\* C1 witness: a scan during which a second call was rejected has finished and
\* stored a list of two locations.
C1_Witness ==
  /\ ScanReturned
  /\ callsDuringScan >= 1
  /\ thrown = "Scan already in progress"
  /\ returned.success
  /\ Len(lastDiscoveredProjects) = 2

\* C2: every accepted scanProjects() call eventually returns a result with its
\* scanDuration recorded; when it returns, whatever the outcome, scanInProgress
\* is false, so that the next call passes the guard.
C2_ScanAlwaysReturns ==
  /\ scanInProgress ~> (pc = "idle" /\ ~scanInProgress /\ returned.scanDuration > 0)
  /\ [][ScanReturns => /\ ~scanInProgress'
                       /\ ~scanGuard'
                       /\ returned'.scanDuration = elapsed + 1]_vars

\* C2 witness: a scan that failed during the traversal has returned, with its
\* duration recorded and the flag cleared.
C2_Witness ==
  /\ pc = "idle"
  /\ ~scanInProgress
  /\ ~returned.success
  /\ returned.scanDuration > 0
  /\ readDirCalls >= 2
  /\ Len(returned.errors) = 1

\* C3: when the listing of one directory below the scan root fails, the scan
\* still reports every location of the directories that can be listed:
\* projectsFound counts them and the stored list holds them.
C3_OneBadDirectoryKeepsTheRest ==
  (ScanReturned /\ rootKind = "dir" /\ denied # {} /\ 0 \notin denied) =>
    /\ returned.projectsFound = Cardinality(ReadableLocations)
    /\ ReadableLocations \subseteq PathSet(getDiscoveredProjects)

\* C4: when the scan root is missing or is not a directory, an accepted
\* scanProjects() call throws nothing and returns success = false,
\* projectsFound = 0 and one error entry naming the root path, without a single
\* Deno.readDir call.
C4_RootNotFound ==
  [][(ScanReturns /\ rootKind # "dir") =>
       /\ thrown' = thrown
       /\ returned'.success = FALSE
       /\ returned'.projectsFound = 0
       /\ returned'.errors =
            <<[path |-> projectsPath,
               error |-> <<"Projects directory not found: ", projectsPath>>]>>
       /\ readDirCalls' = 0
       /\ projects = <<>>]_vars

\* C4 witness: a scan of a root that is a file, or is missing, has returned.
C4_Witness ==
  /\ ScanReturned
  /\ rootKind # "dir"
  /\ ~returned.success
  /\ readDirCalls = 0

\* C5: getDiscoveredProjects() is empty until a scan has succeeded, and the
\* stored list changes only when a scan succeeds, to exactly the list that scan
\* accumulated: a rejected call and a failed scan leave it as it is.
C5_StoredListIsLastSuccessfulScan ==
  /\ [](lastScanTime = "null" => getDiscoveredProjects = <<>>)
  /\ [][IF ScanReturns /\ returned'.success
        THEN getDiscoveredProjects' = projects
        ELSE getDiscoveredProjects' = getDiscoveredProjects]_vars

\* C5 witness: a scan has failed while a list of an earlier successful scan was
\* stored.
C5_Witness ==
  /\ ScanReturned
  /\ ~returned.success
  /\ lastScanTime # "null"
  /\ Len(getDiscoveredProjects) >= 1

\* C6: a scan that follows another with no file-system change in between
\* reports the same projectsFound and stores the same set of paths.
C6_RescanIsIdempotent ==
  [][(ScanReturns /\ ~fsChanged /\ returned # NoResult) =>
       /\ returned'.projectsFound = returned.projectsFound
       /\ PathSet(lastDiscoveredProjects') = PathSet(lastDiscoveredProjects)]_vars

\* C6 witness: two scans in succession over an unchanged file system have found
\* two locations each.
C6_Witness ==
  /\ ScanReturned
  /\ repeatedScan
  /\ returned.success
  /\ returned.projectsFound = 2

\* C7: after a successful scan every domain-like level-2 folder has exactly one
\* location of its own, with category and domain and no subdomain; each child
\* directory with a subdomain-like name has exactly one location with domain and
\* subdomain; no other child has a location (the children of a domain folder
\* that cannot be listed have none).
C7_DomainFolderLocations ==
  (ScanReturned /\ returned.success) =>
    \A d \in DomainFolders :
      /\ \E k \in 1..Len(lastDiscoveredProjects) :
           /\ LocationsAt(lastDiscoveredProjects, AbsPath(d)) = {k}
           /\ lastDiscoveredProjects[k] =
                [path |-> AbsPath(d),
                 category |-> toLowerCase(NameOf(ParentOf(d))),
                 domain |-> NameOf(d)]
      /\ \A c \in Children(d) :
           IF IsDir(c) /\ isSubdomainLike(NameOf(c)) /\ d \notin denied
           THEN \E k \in 1..Len(lastDiscoveredProjects) :
                  /\ LocationsAt(lastDiscoveredProjects, AbsPath(c)) = {k}
                  /\ lastDiscoveredProjects[k] =
                       [path |-> AbsPath(c),
                        category |-> toLowerCase(NameOf(ParentOf(d))),
                        domain |-> NameOf(d),
                        subdomain |-> NameOf(c)]
           ELSE LocationsAt(lastDiscoveredProjects, AbsPath(c)) = {}

\* C7 witness: a scan of a tree whose only domain folder has the single child
\* directory api stored exactly two locations.
C7_Witness ==
  /\ ScanReturned
  /\ returned.success
  /\ \E d \in DomainFolders :
       /\ d \notin denied
       /\ \E c \in Children(d) : NameOf(c) = <<"a","p","i">> /\ Children(d) = {c}
       /\ DomainFolders = {d}
       /\ Len(lastDiscoveredProjects) = 2

\* C8: every location a scan records, while it runs and once stored, has the
\* category personal or professional and lies beneath the level-1 folder whose
\* lower-cased name is that category; nothing beneath another level-1 entry is
\* recorded.
C8_OnlyCategoryFolders ==
  \A list \in {projects, lastDiscoveredProjects} :
    \A k \in 1..Len(list) :
      LET rel == RelativeNames(list[k].path) IN
      /\ list[k].category \in CategoryNames
      /\ Len(rel) >= 2
      /\ toLowerCase(rel[1]) = list[k].category
      /\ \E c \in CategoryFolders : NameOf(c) = rel[1]

\* C8 witness: a location beneath the folder Professional is stored with the
\* category professional, and the tree holds a level-1 folder of another name
\* with a domain folder in it.
C8_Witness ==
  /\ ScanReturned
  /\ \E k \in 1..Len(lastDiscoveredProjects) :
       /\ RelativeNames(lastDiscoveredProjects[k].path)[1] = n_Professional
       /\ lastDiscoveredProjects[k].category = n_professional
  /\ \E m \in Children(0) :
       /\ IsDir(m)
       /\ m \notin CategoryFolders
       /\ \E z \in Children(m) : isDomainLike(NameOf(z))

\* A directory holds the entry of EntryPool with this name.
Holds(dir, name) == PoolIndex(name) \in dir.present

\* The names of the dependencies a package.json declares.
DeclaredDependencies(manifest) ==
  {manifest.dependencies[i].name : i \in 1..Len(manifest.dependencies)}

\* A directory that can be listed, holds a folder src and a package.json that
\* declares the dependencies react and react-dom by version strings, and holds
\* no next.config.* file.
DeclaresReact(dir) ==
  /\ dir.listable
  /\ Holds(dir, <<"p","a","c","k","a","g","e",".","j","s","o","n">>)
  /\ Holds(dir, <<"s","r","c">>)
  /\ ~Holds(dir, <<"n","e","x","t",".","c","o","n","f","i","g",".","j","s">>)
  /\ ~Holds(dir, <<"n","e","x","t",".","c","o","n","f","i","g",".","t","s">>)
  /\ dir.packageJson.json = "object"
  /\ {<<"r","e","a","c","t">>, <<"r","e","a","c","t","-","d","o","m">>} \subseteq DeclaredDependencies(dir.packageJson)
  /\ \A i \in 1..Len(dir.packageJson.dependencies) :
       dir.packageJson.dependencies[i].version.isString

\* The configuration files of the other frameworks' signatures, as far as
\* EntryPool has them.
OtherSignatureFiles == {<<"v","u","e",".","c","o","n","f","i","g",".","j","s">>, <<"v","i","t","e",".","c","o","n","f","i","g",".","t","s">>, <<"d","e","n","o",".","j","s","o","n","c">>}

\* The react directory: react and react-dom are all the dependencies it
\* declares, and it holds no configuration file of another framework.
IsReactDirectory(dir) ==
  /\ DeclaresReact(dir)
  /\ DeclaredDependencies(dir.packageJson) = {<<"r","e","a","c","t">>, <<"r","e","a","c","t","-","d","o","m">>}
  /\ \A name \in OtherSignatureFiles : ~Holds(dir, name)

\* The result detectProject returned is react, with a confidence above 0 and
\* 'dependency: react' among the matched indicators.
DetectedReact ==
  /\ detected.type = "react"
  /\ detected.framework.type = "react"
  /\ detected.framework.confidence > 0
  /\ arrayIncludes(detected.framework.indicators, <<"d","e","p","e","n","d","e","n","c","y",":"," ","r","e","a","c","t">>)

\* C9: in every location a scan records, while it runs and once stored, and in
\* the labels getBasicProjectInfo derives from a path (a discovered one or any
\* other), a subdomain is present only together with a non-empty domain.
C9_SubdomainOnlyWithDomain ==
  /\ \A list \in {projects, lastDiscoveredProjects} :
       \A k \in 1..Len(list) :
         "subdomain" \in DOMAIN list[k] =>
           "domain" \in DOMAIN list[k] /\ list[k].domain # <<>>
  /\ basicInfo.subdomain # undefined =>
       basicInfo.domain # undefined /\ basicInfo.domain # <<>>

\* C9 witness: a scan stored a location with a subdomain and one without, and
\* the labels derived from the path of the former carry domain and subdomain.
C9_Witness ==
  /\ \E k \in 1..Len(lastDiscoveredProjects) :
       /\ "subdomain" \in DOMAIN lastDiscoveredProjects[k]
       /\ basicInfo.path = lastDiscoveredProjects[k].path
       /\ basicInfo.subdomain = lastDiscoveredProjects[k].subdomain
       /\ basicInfo.domain = lastDiscoveredProjects[k].domain
  /\ \E k \in 1..Len(lastDiscoveredProjects) :
       "subdomain" \notin DOMAIN lastDiscoveredProjects[k]

IsReactDirectoryWithNextConfig(dir) ==
  /\ dir.listable
  /\ Holds(dir, <<"p","a","c","k","a","g","e",".","j","s","o","n">>)
  /\ Holds(dir, <<"s","r","c">>)
  /\ Holds(dir, <<"n","e","x","t",".","c","o","n","f","i","g",".","j","s">>)
  /\ ~Holds(dir, <<"n","e","x","t",".","c","o","n","f","i","g",".","t","s">>)
  /\ \A name \in OtherSignatureFiles : ~Holds(dir, name)
  /\ dir.packageJson.json = "object"
  /\ DeclaredDependencies(dir.packageJson) = {<<"r","e","a","c","t">>, <<"r","e","a","c","t","-","d","o","m">>}
  /\ \A i \in 1..Len(dir.packageJson.dependencies) :
       dir.packageJson.dependencies[i].version.isString

\* C11: for the react directory that additionally holds next.config.js,
\* detectProject returns type next.
C11_NextConfigSwitchesToNext ==
  (detected # NoDetection /\ IsReactDirectoryWithNextConfig(directory)) =>
    detected.type = "next"

\* No signature of DETECTION_PATTERNS has a file, folder, dependency,
\* dev-dependency or script indicator that matches the directory.
NoSignatureMatches ==
  \A i \in 1..Len(DETECTION_PATTERNS) :
    testPattern(<<>>, DETECTION_PATTERNS[i], gatherIndicators(detectorReadDir(<<>>)))
      .matchedIndicators = <<>>

\* C12: detectProject returns a type other than unknown only with at least one
\* matched indicator; for a directory in which no signature has a matching
\* indicator (an empty directory for one) it returns type unknown, confidence 0
\* and an empty list of matched indicators.
C12_NoIndicatorIsUnknown ==
  detected # NoDetection =>
    /\ detected.type # "unknown" => detected.framework.indicators # <<>>
    /\ NoSignatureMatches =>
         /\ detected.type = "unknown"
         /\ detected.framework.confidence = 0
         /\ detected.framework.indicators = <<>>

\* The react directory of C10, except that its package.json gives the versions
\* of react and react-dom as numbers.
ReactDirectoryWithNumericVersion(dir) ==
  /\ dir.listable
  /\ Holds(dir, <<"p","a","c","k","a","g","e",".","j","s","o","n">>)
  /\ Holds(dir, <<"s","r","c">>)
  /\ ~Holds(dir, <<"n","e","x","t",".","c","o","n","f","i","g",".","j","s">>)
  /\ ~Holds(dir, <<"n","e","x","t",".","c","o","n","f","i","g",".","t","s">>)
  /\ \A name \in OtherSignatureFiles : ~Holds(dir, name)
  /\ dir.packageJson.json = "object"
  /\ DeclaredDependencies(dir.packageJson) = {<<"r","e","a","c","t">>, <<"r","e","a","c","t","-","d","o","m">>}
  /\ \A i \in 1..Len(dir.packageJson.dependencies) :
       ~dir.packageJson.dependencies[i].version.isString

\* The result of detectProject's catch block: unknown, confidence 0, nothing
\* matched, no indicator set, and an error record of kind 'detection'.
IsDetectionError ==
  /\ detected.type = "unknown"
  /\ detected.framework.type = "unknown"
  /\ detected.framework.confidence = 0
  /\ detected.framework.indicators = <<>>
  /\ detected.indicators = getEmptyIndicators
  /\ "lastError" \in DOMAIN detected
  /\ detected.lastError.type = "detection"

\* A package.json whose content is the JSON value null, or one that gives the
\* version of a dependency as something else than a string.
UnexpectedManifest(dir) ==
  /\ Holds(dir, <<"p","a","c","k","a","g","e",".","j","s","o","n">>)
  /\ \/ dir.packageJson.json = "null"
     \/ \E i \in 1..Len(dir.packageJson.dependencies) :
          ~dir.packageJson.dependencies[i].version.isString

\* C13 as the specification states it: a package.json whose parsed content is
\* no object, or whose dependency version is no string, makes detectProject
\* return unknown with an error record of kind 'detection'.
C13_AsStated ==
  (detected # NoDetection /\ UnexpectedManifest(directory)) => IsDetectionError

\* C13: detectProject always returns a result whose type is unknown or the type
\* of a signature. When the version of the detected framework's dependency is
\* no string (the react directory with numeric versions), and whenever an error
\* record is attached, the result is unknown, confidence 0, nothing matched and
\* an error record of kind 'detection'. A package.json that is no JSON or the
\* JSON value null is no error: the result carries no error record.
C13_ErrorsYieldUnknown ==
  detected # NoDetection =>
    /\ detected.type \in {DETECTION_PATTERNS[i].type : i \in 1..Len(DETECTION_PATTERNS)} \cup {"unknown"}
    /\ ReactDirectoryWithNumericVersion(directory) => IsDetectionError
    /\ "lastError" \in DOMAIN detected => IsDetectionError
    /\ (Holds(directory, <<"p","a","c","k","a","g","e",".","j","s","o","n">>) /\ directory.packageJson.json \in {"invalid", "null"}) =>
         "lastError" \notin DOMAIN detected

\* C13 witness: detectProject returned the error result for the react directory
\* with numeric versions.
C13_Witness ==
  /\ detected # NoDetection
  /\ ReactDirectoryWithNumericVersion(directory)
  /\ IsDetectionError

\* C14: the status detectProject derives is proposed for a directory with no
\* entries; it is development exactly when the indicators computed for the same
\* directory have packageJson, denoJson or indexHtml set, and proposed otherwise.
C14_StatusFollowsIndicators ==
  (detected # NoDetection /\ "status" \in DOMAIN detected) =>
    /\ detected.status \in {"proposed", "development"}
    /\ directory.present = {} => detected.status = "proposed"
    /\ detected.status = "development" <=>
         \/ detected.indicators.packageJson
         \/ detected.indicators.denoJson
         \/ detected.indicators.indexHtml

\* The name has a dot in it.
HasDot(text) == \E i \in 1..Len(text) : text[i] = "."

\* What follows the last dot of a name that has one.
AfterLastDot(text) ==
  LET last == CHOOSE i \in 1..Len(text) :
                /\ text[i] = "."
                /\ \A j \in (i + 1)..Len(text) : text[j] # "."
  IN  SubSeq(text, last + 1, Len(text))

\* C15: isDomainLike(name) is true exactly when the name has a dot in it and
\* what follows its last dot, in lower case, is one of the TLDs.
C15_DomainLikeIffTldAfterLastDot ==
  domainLike.called =>
    (domainLike.value <=>
       HasDot(candidate) /\ toLowerCase(AfterLastDot(candidate)) \in tlds)

\* C15 witness: isDomainLike returned true for a name whose ending is a TLD
\* written in upper case and that has further dots before it.
C15_Witness ==
  /\ domainLike.called
  /\ domainLike.value
  /\ candidate = <<"b","l","o","g",".","e","x","a","m","p","l","e",".","C","O","M">>

\* C16: isSubdomainLike is false for every name of the project folder patterns,
\* dotted or among the subdomain patterns as it may be; for any other name with
\* a dot it is isDomainLike, for any other name without a dot it tells whether
\* the name is among the subdomain patterns. Names are compared in lower case.
C16_SubdomainLikeByCases ==
  subdomainLike.called =>
    /\ toLowerCase(candidate) \in projectFolderPatterns => ~subdomainLike.value
    /\ (toLowerCase(candidate) \notin projectFolderPatterns /\ HasDot(candidate)) =>
         (subdomainLike.value <=> toLowerCase(AfterLastDot(candidate)) \in tlds)
    /\ (toLowerCase(candidate) \notin projectFolderPatterns /\ ~HasDot(candidate)) =>
         (subdomainLike.value <=> toLowerCase(candidate) \in subdomainPatterns)
    /\ candidate \in {<<".","g","i","t">>, <<"s","t","a","t","i","c">>, <<"d","o","c","s">>, <<"t","e","s","t">>, <<"a","r","t","i","c","l","e">>} => ~subdomainLike.value
    /\ candidate \in {<<"a","p","i">>, <<"b","l","o","g",".","e","x","a","m","p","l","e",".","c","o","m">>} => subdomainLike.value

\* C16 witness: isSubdomainLike returned false for 'static', which is among the
\* project folder patterns and among the subdomain patterns.
C16_Witness ==
  /\ subdomainLike.called
  /\ ~subdomainLike.value
  /\ candidate = <<"s","t","a","t","i","c">>
  /\ candidate \in projectFolderPatterns \cap subdomainPatterns

\* C17: over any sequence of startWatching() and stopWatching() calls at most
\* one watch loop consumes events: no event is handled by two loops, no
\* two loops wait for or handle events at the same time, and no listener is
\* called with the same event more than once.
C17_AtMostOneLoop ==
  /\ \A i, j \in 1..Len(loops) :
       i # j => loops[i].handled \cap loops[j].handled = {}
  /\ Cardinality({i \in 1..Len(loops) : loops[i].pc = "classifying"}) <= 1
  /\ \A e \in 1..MaxEvents, l \in Listeners : notified[e, l] <= 1

\* C18: while stopWatching() has been called and startWatching() not since, no
\* listener is called.
C18_NoNotificationAfterStop ==
  [][stopRequested => notified' = notified]_vars

\* C19: whatever the environment variables are set to, unset and no number
\* included, the configuration loadPDEConfig() returns has basePort in
\* 1000..65535, scanInterval at least 1000 and maxConcurrentProjects in 1..50.
C19_ConfigWithinRanges ==
  config.loaded =>
    /\ ~config.server.basePort.isNaN
    /\ config.server.basePort.value \in 1000..65535
    /\ ~config.projects.scanInterval.isNaN
    /\ config.projects.scanInterval.value >= 1000
    /\ ~config.server.maxConcurrentProjects.isNaN
    /\ config.server.maxConcurrentProjects.value \in 1..50

\* C20: once addOrUpdateProject(p) has completed on an initialised store, and
\* until removeProject(p.id), getProject(p.id) returns a record with the name,
\* type, category and path of p, and getProjectByPath(p.path) returns the same
\* record.
C20_StoredProjectIsFound ==
  \A id \in ProjectIds :
    upserted[id] # nullProject =>
      LET p == upserted[id] IN
      /\ getProject(id).id = id
      /\ getProject(id).name = p.name
      /\ getProject(id).type = p.type
      /\ getProject(id).category = p.category
      /\ getProject(id).path = p.path
      /\ getProjectByPath(p.path) = getProject(id)

\* The request names the project: by its id, its name, or the composite of its
\* category and name.
Identifies(projectId, project) ==
  \/ project.id = projectId
  \/ project.name = projectId
  \/ project.category \o <<"-">> \o project.name = projectId

\* C21: a DELETE /api/projects/{id} request removes at most one record, that
\* of the project the id, name or category-name composite of the request names;
\* when no stored project is named by it, no record is removed.
C21_DeleteRemovesOnlyTheNamedProject ==
  lastCall.op = "DELETE" =>
    /\ Cardinality(lastCall.removed) <= 1
    /\ \A project \in lastCall.removed : Identifies(lastCall.id, project)

\* C29: from a freshly created store, after any sequence of addOrUpdateProject
\* and removeProject calls, totalProjects is the number of stored records and
\* is never negative; and removeProject for an id that is not stored returns
\* false and changes neither the records nor any counter.
C29_TotalIsTheNumberOfRecords ==
  [][/\ metadata'.initialised =>
          /\ metadata'.totalProjects = Len(metadata'.projects)
          /\ metadata'.totalProjects >= 0
     /\ (/\ lastCall'.op = "removeProject"
         /\ projectIndex(initialised.projects, lastCall'.id) = 0) =>
          /\ ~lastCall'.returned
          /\ metadata'.projects = initialised.projects
          /\ metadata'.totalProjects = initialised.totalProjects
          /\ metadata'.stats = initialised.stats]_vars

\* A removeProject call for an id that is not stored returned false, in a
\* store that holds two projects.
C29_Witness ==
  /\ lastCall.op = "removeProject"
  /\ ~lastCall.returned
  /\ metadata.initialised
  /\ metadata.totalProjects = 2
  /\ Len(metadata.projects) = 2

\* The number of stored records the predicate holds for.
recordsWith(Test(_)) ==
  Cardinality({k \in 1..Len(metadata.projects) : Test(metadata.projects[k])})

\* C30: for every type, category and status, the counter of the statistics is
\* the number of stored records with that value, a missing key counting as 0,
\* also after an update that changes the type or the status of a project; and
\* no counter is negative.
C30_CountersMatchTheRecords ==
  metadata.initialised =>
    /\ \A type \in {"react", "unknown"} :
         LET HasType(project) == project.type = type IN
         countOf(metadata.stats.projectsByType, type) = recordsWith(HasType)
    /\ \A status \in {"development", "proposed"} :
         LET HasStatus(project) == project.status = status IN
         countOf(metadata.stats.projectsByStatus, status) = recordsWith(HasStatus)
    /\ LET IsPersonal(project) == project.category = <<"p","e","r","s","o","n","a","l">> IN
       countOf(metadata.stats.projectsByCategory, <<"p","e","r","s","o","n","a","l">>) = recordsWith(IsPersonal)
    /\ \A key \in DOMAIN metadata.stats.projectsByType : metadata.stats.projectsByType[key] >= 0
    /\ \A key \in DOMAIN metadata.stats.projectsByStatus : metadata.stats.projectsByStatus[key] >= 0
    /\ \A key \in DOMAIN metadata.stats.projectsByCategory :
         metadata.stats.projectsByCategory[key] >= 0

\* C22: after a POST /api/scan sweep that processed every discovered location
\* without error, the store holds a separate record for each discovered
\* location: getProjectByPath finds a record with that path for every
\* discovered path, so no two discovered locations share one record.
C22_EveryDiscoveredLocationHasItsRecord ==
  lastCall.op = "POST /api/scan" =>
    \A k \in 1..Len(lastCall.discovered) :
      /\ getProjectByPath(lastCall.discovered[k].path) # nullProject
      /\ getProjectByPath(lastCall.discovered[k].path).path = lastCall.discovered[k].path

\* The level-2 folders that are not domain-like and look like a project.
ProjectLikeFolders ==
  {i \in Level2Folders : ~isDomainLike(NameOf(i)) /\ looksLikeProjectFolder(NameOf(i))}

\* The path is that of the folder or of something beneath it.
AtOrBeneath(path, folder) ==
  \/ path = AbsPath(folder)
  \/ /\ Len(path) > Len(AbsPath(folder))
     /\ SubSeq(path, 1, Len(AbsPath(folder)) + 1) = AbsPath(folder) \o <<"/">>

\* C23: a level-2 folder that is not domain-like and that looksLikeProjectFolder
\* accepts has no discovered location, neither for itself nor for anything
\* beneath it, whatever indicators it or its children hold: neither in the list
\* a scan accumulates nor in the stored one.
C23_ProjectLikeFolderIsSkipped ==
  \A list \in {projects, lastDiscoveredProjects} :
    \A k \in 1..Len(list) :
      \A folder \in ProjectLikeFolders : ~AtOrBeneath(list[k].path, folder)

\* C23 witness: a successful scan has returned for a tree in which the
\* project-like folder my-app has a child directory holding package.json.
C23_Witness ==
  /\ ScanReturned
  /\ returned.success
  /\ denied = {}
  /\ \E folder \in ProjectLikeFolders :
       /\ NameOf(folder) = n_my_app
       /\ \E c \in Children(folder) : IsDir(c) /\ HasIndicator(c)

\* C24: after a successful scan, a level-2 folder that is neither domain-like
\* nor project-like has no location of its own; each of its child directories
\* that holds a project indicator has exactly one location, with the category,
\* the container's name as domain and the child's name as subdomain; no other
\* child has a location (the children of a container that cannot be listed
\* have none).
C24_ContainerFolderLocations ==
  (ScanReturned /\ returned.success) =>
    \A f \in ContainerFolders :
      /\ LocationsAt(lastDiscoveredProjects, AbsPath(f)) = {}
      /\ \A c \in Children(f) :
           IF IsDir(c) /\ HasIndicator(c) /\ f \notin denied
           THEN \E k \in 1..Len(lastDiscoveredProjects) :
                  /\ LocationsAt(lastDiscoveredProjects, AbsPath(c)) = {k}
                  /\ lastDiscoveredProjects[k] =
                       [path |-> AbsPath(c),
                        category |-> toLowerCase(NameOf(ParentOf(f))),
                        domain |-> NameOf(f),
                        subdomain |-> NameOf(c)]
           ELSE LocationsAt(lastDiscoveredProjects, AbsPath(c)) = {}

\* C24 witness: a scan of a tree whose container acme has the child site, which
\* holds README.md, stored exactly the location of site.
C24_Witness ==
  /\ ScanReturned
  /\ returned.success
  /\ \E f \in ContainerFolders :
       /\ NameOf(f) = n_acme
       /\ \E c \in Children(f) :
            /\ HasIndicator(c)
            /\ lastDiscoveredProjects =
                 <<[path |-> AbsPath(c), category |-> n_personal, domain |-> n_acme,
                    subdomain |-> n_site]>>

\* The indicator names of the claim, in lower case.
IndicatorNames ==
  { <<"p","a","c","k","a","g","e",".","j","s","o","n">>, <<"d","e","n","o",".","j","s","o","n">>, <<"i","n","d","e","x",".","h","t","m","l">>, <<"s","r","c">>, <<"p","u","b","l","i","c">>, <<".","g","i","t">>, <<"r","e","a","d","m","e",".","m","d">> }

\* C28: isProjectDirectory(path) is true exactly when path is a directory that
\* exists and can be listed and some immediate child of it has a name that, in
\* lower case, is one of the indicator names; for a path that cannot be listed
\* it is false.
C28_ProjectDirectoryIffIndicatorChild ==
  \A i \in tree :
    isProjectDirectory(AbsPath(i)) <=>
      /\ rootKind = "dir"
      /\ IsDir(i)
      /\ i \notin denied
      /\ \E f \in Children(i) : toLowerCase(NameOf(f)) \in IndicatorNames

\* C28 witness: a scan has returned that asked isProjectDirectory for two kinds
\* of child of a container: one that holds README.md, which was recorded, and,
\* in another state, one that holds README.md and cannot be listed, which was
\* not.
C28_Witness ==
  /\ ScanReturned
  /\ returned.success
  /\ \E f \in ContainerFolders : \E c \in Children(f) :
       /\ f \notin denied
       /\ c \in denied
       /\ \E r \in Children(c) : NameOf(r) = n_README_md
       /\ ~isProjectDirectory(AbsPath(c))
       /\ lastDiscoveredProjects = <<>>

\* detectProject has returned a result of its try block.
DetectedNormally == detected # NoDetection /\ "lastError" \notin DOMAIN detected

\* What testPattern gives for each signature in the directory.
PatternResults ==
  [i \in 1..Len(DETECTION_PATTERNS) |->
     testPattern(<<>>, DETECTION_PATTERNS[i], gatherIndicators(detectorReadDir(<<>>)))]

\* The signatures with a positive final score among the results.
PositivePatterns(results) == {i \in 1..Len(DETECTION_PATTERNS) : results[i].score > 0}

\* Signature i has the highest final score of the positive ones, and is the
\* first of the table with that score.
IsFirstBest(results, i) ==
  /\ results[i].score > 0
  /\ \A j \in 1..Len(DETECTION_PATTERNS) : results[j].score <= results[i].score
  /\ \A j \in 1..(i - 1) : results[j].score < results[i].score

C26_ConfidenceIsClampedScore ==
  LET results == PatternResults IN
  detected # NoDetection =>
    /\ detected.framework.confidence \in 0..10000
    /\ (DetectedNormally /\ PositivePatterns(results) # {}) =>
         \E i \in PositivePatterns(results) :
           /\ IsFirstBest(results, i)
           /\ detected.framework.confidence =
                (IF results[i].score < 10000 THEN results[i].score ELSE 10000)
    /\ detected.framework.confidence = 0 =>
         detected.type = "unknown" /\ detected.framework.type = "unknown"

\* C26 witness: detectProject returned the confidence 1 for a directory in
\* which the selected signature has a final score above 100.
C26_Witness ==
  LET results == PatternResults IN
  /\ DetectedNormally
  /\ detected.framework.confidence = 10000
  /\ \E i \in PositivePatterns(results) : IsFirstBest(results, i) /\ results[i].score > 10000

\* The final score signature i has from its file and folder indicators alone,
\* in hundredths.
FileAndFolderScore(i) ==
  LET pattern == DETECTION_PATTERNS[i]
      files == {k \in 1..Len(pattern.files) :
                  \E e \in directory.present :
                    EntryPool[e].name = pattern.files[k] /\ EntryPool[e].isFile}
      folders == {k \in 1..Len(pattern.folders) :
                    \/ \E e \in directory.present :
                         EntryPool[e].name = pattern.folders[k] /\ EntryPool[e].isDirectory
                    \/ pattern.folders[k] = <<"s","r","c","/","a","p","p">> /\ directory.srcApp}
  IN  (20 * Cardinality(files) + 15 * Cardinality(folders)) * pattern.confidence
        + 100 * pattern.priority

\* The package.json of the directory is missing, is no JSON, or holds null.
ManifestUnusable == directory.packageJson.json \in {"absent", "invalid", "null"}

\* The matched indicator names a dependency, a dev-dependency or a script.
FromManifest(indicator) ==
  \/ startsWith(indicator, <<"d","e","p","e","n","d","e","n","c","y",":"," ">>)
  \/ startsWith(indicator, <<"d","e","v","D","e","p","e","n","d","e","n","c","y",":"," ">>)
  \/ startsWith(indicator, <<"s","c","r","i","p","t",":"," ">>)

\* C27: when package.json is missing or cannot be read or parsed, detectProject
\* returns normally, with no error record; no signature gets a contribution
\* from a dependency, dev-dependency or script, and the file and folder
\* indicators are scored as usual: the result is that of the signature whose
\* score from files and folders alone is the highest.
C27_UnusableManifestScoresFilesAndFolders ==
  (detected # NoDetection /\ ManifestUnusable) =>
    /\ "lastError" \notin DOMAIN detected
    /\ LET results == PatternResults IN
       \A i \in 1..Len(DETECTION_PATTERNS) :
         /\ results[i].score = FileAndFolderScore(i)
         /\ \A k \in 1..Len(results[i].matchedIndicators) :
              ~FromManifest(results[i].matchedIndicators[k])
    /\ \E i \in 1..Len(DETECTION_PATTERNS) :
         /\ \A j \in 1..Len(DETECTION_PATTERNS) : FileAndFolderScore(j) <= FileAndFolderScore(i)
         /\ detected.type = DETECTION_PATTERNS[i].type
         /\ detected.framework.confidence =
              (IF FileAndFolderScore(i) < 10000 THEN FileAndFolderScore(i) ELSE 10000)
         /\ \A k \in 1..Len(detected.framework.indicators) :
              ~FromManifest(detected.framework.indicators[k])

\* C27 witness: detectProject returned type vue, from the file vue.config.js
\* and the folder src, for a directory whose package.json is no JSON.
C27_Witness ==
  /\ detected # NoDetection
  /\ directory.packageJson.json = "invalid"
  /\ Holds(directory, <<"p","a","c","k","a","g","e",".","j","s","o","n">>)
  /\ "lastError" \notin DOMAIN detected
  /\ detected.type = "vue"
  /\ detected.framework.indicators = <<<<"v","u","e",".","c","o","n","f","i","g",".","j","s">>, <<"s","r","c">>>>

====
